---- MODULE Spec2Model ----
(***************************************************************************)
(* tibdex/autorebase: the remote Git operations (github-cherry-pick,       *)
(* github-rebase, shared-internals) and the Autorebase decision engine,    *)
(* run by concurrent invocations against one GitHub repository.            *)
(*                                                                         *)
(* A commit id (Sha) is modelled by what determines it: the first-parent   *)
(* chain from the root, each entry carrying the commit's message, its tree *)
(* (the set of changes it contains) and, for a merge commit, the chain of  *)
(* its second parent.  The empty chain stands for "no such reference".     *)
(* Every host call of the code is one action: host calls are the points    *)
(* where concurrent invocations and other actors interleave.               *)
(***************************************************************************)
EXTENDS Integers, Sequences, FiniteSets, TLC

\* ------------------------------------------------------------------ bounds
NRuns == 2            \* concurrent invocations
MaxCommits == 2       \* longest commit list given to cherryPickCommits
MaxExternal == 2      \* writes of other actors to a branch during a call

Runs == 1..NRuns

\* ------------------------------------------------------------- git objects
NoSha == <<>>

Entry(msg, tree, p2) == [msg |-> msg, tree |-> tree, p2 |-> p2]

\* POST /git/commits with one parent: the parent's chain plus one entry.
CreateCommit(parent, msg, tree) == Append(parent, Entry(msg, tree, NoSha))

TreeOf(sha) == IF sha = NoSha THEN {} ELSE sha[Len(sha)].tree

MessageOf(sha) == sha[Len(sha)].msg

\* A linear history whose commits each add the change named by their message.
RECURSIVE Linear(_)
Linear(msgs) ==
  IF msgs = <<>> THEN NoSha
  ELSE LET parent == Linear(SubSeq(msgs, 1, Len(msgs) - 1))
           msg == msgs[Len(msgs)]
       IN  CreateCommit(parent, msg, TreeOf(parent) \cup {msg})

IsPrefix(s, t) == Len(s) <= Len(t) /\ SubSeq(t, 1, Len(s)) = s

\* a is b or an ancestor of b (through first parents, or through the second
\* parent of one of b's merge commits).
IsAncestor(a, b) ==
  \/ IsPrefix(a, b)
  \/ \E i \in 1..Len(b) : IsPrefix(a, b[i].p2)

Messages(sha) == [i \in 1..Len(sha) |-> sha[i].msg]

\* Pairs of changes the host cannot merge with one another.
Conflicting == {{"K", "D"}}

\* ------------------------------------------------------------- references
MasterRef == <<"heads", 0>>
FeatureRef(number) == <<"heads", number>>

\* generateUniqueRef: the uuid suffix is modelled by the invocation's id, each
\* invocation creating at most one temporary reference per prefix.
RebaseTemporaryRef(r) == <<"rebase-pull-request", r>>
CherryPickTemporaryRef(r) == <<"cherry-pick", r>>

RefNames ==
  {MasterRef} \cup {FeatureRef(n) : n \in {1, 2, 3}}
  \cup {RebaseTemporaryRef(r) : r \in Runs}
  \cup {CherryPickTemporaryRef(r) : r \in Runs}

PullNumbers == {1, 2, 3}

VARIABLES
  refs,     \* the repository's references: RefNames -> Sha (NoSha: absent)
  pulls,    \* the pull requests: PullNumbers -> record
  comments, \* the comments posted on each pull request
  run,      \* each invocation's position and locals
  aux,      \* history of what happened (not read by the code)
  wrote     \* what each invocation has changed on the host (not read either)

vars == <<refs, pulls, comments, run, aux, wrote>>

\* A step of invocation r, recorded with what it changes on the host.
Track(r) ==
  wrote' = [wrote EXCEPT ![r] =
     @ \cup (IF refs' # refs THEN {"refs"} ELSE {})
       \cup (IF \E n \in DOMAIN pulls : pulls'[n].labeled # pulls[n].labeled
              THEN {"labels"} ELSE {})
       \cup (IF \E n \in DOMAIN pulls : pulls'[n].merged # pulls[n].merged
              THEN {"merged"} ELSE {})
       \cup (IF comments' # comments THEN {"comments"} ELSE {})]

\* ------------------------------------------------------ host primitives
\* GET /git/refs/:ref
fetchReferenceSha(ref) == refs[ref]

\* PATCH /git/refs/:ref: accepted when forced or when a fast-forward.
UpdateAccepted(force, ref, sha) ==
  /\ refs[ref] # NoSha
  /\ force \/ IsAncestor(refs[ref], sha)

\* POST /merges of a commit into a branch: the host's three-way merge.
MergeConflicts(base, commit) ==
  \E x \in TreeOf(commit) \ TreeOf(refs[base]) :
    \E y \in TreeOf(refs[base]) \ TreeOf(commit) : {x, y} \in Conflicting

\* The merge commit the host puts on the branch.
MergeCommit(base, commit) ==
  Append(refs[base],
         Entry("merge", TreeOf(refs[base]) \cup TreeOf(commit), commit))

\* --------------------------------------------------------- invocations
\* A webhook event as autorebase reads it: name and action, the pull request
\* (or issue) number, whether the label of a "labeled" action is the
\* configured one, the payload's closed_at/mergeable/merged, the sha of a
\* status or check_run, and for a comment: whether its trimmed body is a
\* rebase command, whether the issue is a pull request, and the permission
\* the host reports for its author.
NoEvent ==
  [name |-> "none", action |-> "none", number |-> 1, labelIsLabel |-> FALSE,
   closed |-> FALSE, mergeable |-> FALSE, merged |-> FALSE, sha |-> NoSha,
   command |-> FALSE, isPullRequest |-> FALSE, permission |-> "none"]

\* PullRequestInfo (pullRequestNumber 0: null).
NoInfo ==
  [base |-> MasterRef, head |-> MasterRef,
   labeledAndOpenedAndRebaseable |-> FALSE, mergeableState |-> "unknown",
   merged |-> FALSE, pullRequestNumber |-> 0, sha |-> NoSha]

\* error: the pending exception; returned: the value the entry point returned.
\* cherryPickCommits: commits, head, headInitialSha, sha, index, tree,
\* createdCommit.  rebasePullRequest: number, baseRef, headRef,
\* prHeadInitialSha (its headInitialSha), baseInitialSha, prCommits (its
\* commits), newSha.  autorebase: event, forceRebase, pullRequest, label
\* (whether rebase was given the label), predicate and numbers (of
\* findOldestPullRequest), action (the returned Action's type) and thrown
\* (the message of the error autorebase threw).  waitForKnownMergeableState:
\* attempts (the retries made so far) and timeout (the delay, in ms, waited
\* before the current attempt).
IdleRun ==
  [pc |-> "idle", error |-> "none", returned |-> NoSha,
   cpCaller |-> "none", commits |-> <<>>, head |-> MasterRef,
   headInitialSha |-> NoSha, sha |-> NoSha, index |-> 1, tree |-> {},
   createdCommit |-> NoSha,
   rbCaller |-> "none", number |-> 1, baseRef |-> MasterRef,
   headRef |-> MasterRef, prHeadInitialSha |-> NoSha,
   baseInitialSha |-> NoSha, prCommits |-> <<>>, newSha |-> NoSha,
   event |-> NoEvent, forceRebase |-> FALSE, pullRequest |-> NoInfo,
   label |-> FALSE, predicate |-> "none", numbers |-> <<>>,
   action |-> "none", thrown |-> "none",
   attempts |-> 0, timeout |-> 0]

\* ------------------------------------------------- github-cherry-pick
\* cherryPickCommits: the first request reads the target's tip.
CpFetchHead(r) ==
  /\ run[r].pc = "cp_fetchHead"
  /\ run' = [run EXCEPT ![r].headInitialSha = fetchReferenceSha(run[r].head),
                        ![r].pc = "cp_createTemp"]
  /\ UNCHANGED <<refs, pulls, comments, aux>>

\* withTemporaryReference / createTemporaryReference: POST /git/refs.
CpCreateTemp(r) ==
  /\ run[r].pc = "cp_createTemp"
  /\ refs' = [refs EXCEPT ![CherryPickTemporaryRef(r)] = run[r].headInitialSha]
  /\ run' = [run EXCEPT ![r].sha = run[r].headInitialSha,
                        ![r].index = 1,
                        ![r].pc = IF run[r].commits = <<>>
                                    THEN "cp_updateHead" ELSE "cp_merge"]
  /\ UNCHANGED <<pulls, comments, aux>>

\* A commit the host cannot merge is skipped instead of failing the call.
CpMergeSkipsConflict(r) ==
  LET tmp == CherryPickTemporaryRef(r)
      commit == run[r].commits[run[r].index]
  IN  /\ run[r].pc = "cp_merge"
      /\ IF MergeConflicts(tmp, commit)
           THEN /\ run' = [run EXCEPT
                     ![r].index = run[r].index + 1,
                     ![r].pc = IF run[r].index = Len(run[r].commits)
                                 THEN "cp_updateHead" ELSE "cp_merge"]
                /\ UNCHANGED refs
           ELSE /\ refs' = [refs EXCEPT ![tmp] = MergeCommit(tmp, commit)]
                /\ run' = [run EXCEPT ![r].tree = TreeOf(MergeCommit(tmp, commit)),
                                      ![r].pc = "cp_createCommit"]
      /\ UNCHANGED <<pulls, comments, aux>>

\* cherryPickCommit, first request: merge the commit into the temporary branch.
CpMerge(r) ==
  LET tmp == CherryPickTemporaryRef(r)
      commit == run[r].commits[run[r].index]
  IN  /\ run[r].pc = "cp_merge"
      /\ IF MergeConflicts(tmp, commit)
           THEN /\ run' = [run EXCEPT ![r].error = "conflict",
                                      ![r].pc = "cp_deleteTemp"]
                /\ UNCHANGED refs
           ELSE /\ refs' = [refs EXCEPT ![tmp] = MergeCommit(tmp, commit)]
                /\ run' = [run EXCEPT ![r].tree = TreeOf(MergeCommit(tmp, commit)),
                                      ![r].pc = "cp_createCommit"]
      /\ UNCHANGED <<pulls, comments, aux>>

\* createCommitWithDifferentTree keeping the picked commit as second parent.
CpCreateCommitTwoParents(r) ==
  /\ run[r].pc = "cp_createCommit"
  /\ run' = [run EXCEPT
       ![r].createdCommit =
          Append(run[r].sha,
                 Entry(MessageOf(run[r].commits[run[r].index]), run[r].tree,
                       run[r].commits[run[r].index])),
       ![r].pc = "cp_updateTemp"]
  /\ UNCHANGED <<refs, pulls, comments, aux>>

\* createCommitWithDifferentTree: the picked commit's message, the merged tree
\* and the previous tip as only parent.
CpCreateCommit(r) ==
  /\ run[r].pc = "cp_createCommit"
  /\ run' = [run EXCEPT
       ![r].createdCommit =
          CreateCommit(run[r].sha,
                       MessageOf(run[r].commits[run[r].index]), run[r].tree),
       ![r].pc = "cp_updateTemp"]
  /\ UNCHANGED <<refs, pulls, comments, aux>>

\* cherryPickCommit, last request: force the temporary branch to the new commit.
CpUpdateTemp(r) ==
  LET tmp == CherryPickTemporaryRef(r)
  IN  /\ run[r].pc = "cp_updateTemp"
      /\ refs' = [refs EXCEPT ![tmp] = run[r].createdCommit]
      /\ run' = [run EXCEPT ![r].sha = run[r].createdCommit,
                            ![r].index = run[r].index + 1,
                            ![r].pc = IF run[r].index = Len(run[r].commits)
                                        THEN "cp_updateHead" ELSE "cp_merge"]
      /\ UNCHANGED <<pulls, comments, aux>>

\* The final update made with force: true instead of force: false.
CpUpdateHeadForced(r) ==
  /\ run[r].pc = "cp_updateHead"
  /\ IF UpdateAccepted(TRUE, run[r].head, run[r].sha)
       THEN /\ refs' = [refs EXCEPT ![run[r].head] = run[r].sha]
            /\ run' = [run EXCEPT ![r].pc = "cp_deleteTemp"]
       ELSE /\ run' = [run EXCEPT ![r].error = "referenceChanged",
                                  ![r].pc = "cp_deleteTemp"]
            /\ UNCHANGED refs
  /\ aux' = [aux EXCEPT !.atUpdate[r] = refs[run[r].head]]
  /\ UNCHANGED <<pulls, comments>>

\* The fast-forward-only update of the target to the new tip.
CpUpdateHead(r) ==
  /\ run[r].pc = "cp_updateHead"
  /\ IF UpdateAccepted(FALSE, run[r].head, run[r].sha)
       THEN /\ refs' = [refs EXCEPT ![run[r].head] = run[r].sha]
            /\ run' = [run EXCEPT ![r].pc = "cp_deleteTemp"]
       ELSE /\ run' = [run EXCEPT ![r].error = "referenceChanged",
                                  ![r].pc = "cp_deleteTemp"]
            /\ UNCHANGED refs
  /\ aux' = [aux EXCEPT !.atUpdate[r] = refs[run[r].head]]
  /\ UNCHANGED <<pulls, comments>>

\* cherryPickCommits returns its new tip or rethrows: to its caller when it
\* is rebasePullRequest's action (const newSha = await cherryPick(...)).
CpReturn(r) ==
  IF run[r].cpCaller = "rebase"
    THEN [run EXCEPT ![r].newSha = IF run[r].error = "none"
                                     THEN run[r].sha ELSE NoSha,
                     ![r].pc = IF run[r].error = "none"
                                 THEN "rb_checkSameHead" ELSE "rb_deleteTemp"]
    ELSE [run EXCEPT ![r].returned = IF run[r].error = "none"
                                       THEN run[r].sha ELSE NoSha,
                     ![r].pc = "done"]

\* The temporary branch deleted after the action without a finally block.
CpDeleteTempNoFinally(r) ==
  /\ run[r].pc = "cp_deleteTemp"
  /\ refs' = [refs EXCEPT ![CherryPickTemporaryRef(r)] =
                 IF run[r].error = "none" THEN NoSha ELSE @]
  /\ run' = CpReturn(r)
  /\ UNCHANGED <<pulls, comments, aux>>

\* withTemporaryReference's finally: DELETE /git/refs of the temporary branch,
\* then the value is returned or the error rethrown.
CpDeleteTemp(r) ==
  /\ run[r].pc = "cp_deleteTemp"
  /\ refs' = [refs EXCEPT ![CherryPickTemporaryRef(r)] = NoSha]
  /\ run' = CpReturn(r)
  /\ UNCHANGED <<pulls, comments, aux>>

\* ------------------------------------------------------ github-rebase
\* fetchCommits: the pull request's commits, oldest first: those of the head
\* branch that are not on the base branch.
RECURSIVE CommonLength(_, _)
CommonLength(s, t) ==
  IF s = <<>> \/ t = <<>> \/ Head(s) # Head(t) THEN 0
  ELSE 1 + CommonLength(Tail(s), Tail(t))

fetchCommits(number) ==
  LET h == refs[pulls[number].head]
      k == CommonLength(h, refs[pulls[number].base])
  IN  [i \in 1..(Len(h) - k) |-> SubSeq(h, 1, k + i)]

\* GET /pulls/:number: the base and head branches and the head's commit id.
RbGetPull(r) ==
  /\ run[r].pc = "rb_getPull"
  /\ run' = [run EXCEPT
       ![r].baseRef = pulls[run[r].number].base,
       ![r].headRef = pulls[run[r].number].head,
       ![r].prHeadInitialSha = refs[pulls[run[r].number].head],
       ![r].pc = "rb_fetchBase"]
  /\ UNCHANGED <<refs, pulls, comments, aux>>

\* The base commit id the host gives in the pull request itself: the base
\* branch's tip when the host last computed the pull request's mergeability.
RecordedBaseSha(n) == pulls[n].computedFor[1]

\* rebasePullRequest trusting the base commit id of the pull request.
RbFetchBaseFromRecord(r) ==
  /\ run[r].pc = "rb_fetchBase"
  /\ run' = [run EXCEPT
       ![r].baseInitialSha = RecordedBaseSha(run[r].number),
       ![r].pc = "rb_fetchCommits"]
  /\ UNCHANGED <<refs, pulls, comments, aux>>

\* The base branch's current tip, read from the reference itself.
RbFetchBase(r) ==
  /\ run[r].pc = "rb_fetchBase"
  /\ run' = [run EXCEPT
       ![r].baseInitialSha = fetchReferenceSha(run[r].baseRef),
       ![r].pc = "rb_fetchCommits"]
  /\ UNCHANGED <<refs, pulls, comments, aux>>

\* The pull request's commits taken newest first.
Reversed(l) == [i \in 1..Len(l) |-> l[Len(l) + 1 - i]]

RbFetchCommitsNewestFirst(r) ==
  /\ run[r].pc = "rb_fetchCommits"
  /\ run' = [run EXCEPT
       ![r].prCommits = Reversed(fetchCommits(run[r].number)),
       ![r].pc = "rb_createTemp"]
  /\ UNCHANGED <<refs, pulls, comments, aux>>

RbFetchCommits(r) ==
  /\ run[r].pc = "rb_fetchCommits"
  /\ run' = [run EXCEPT ![r].prCommits = fetchCommits(run[r].number),
                        ![r].pc = "rb_createTemp"]
  /\ UNCHANGED <<refs, pulls, comments, aux>>

\* withTemporaryReference at the base's tip, then its action calls
\* cherryPick({commits, head: temporaryRef}).
\* The temporary branch named after the pull request alone, without the
\* generated suffix: every call of a pull request works on the same name.
RbCreateTempSharedName(r) ==
  /\ run[r].pc = "rb_createTemp"
  /\ refs' = [refs EXCEPT ![RebaseTemporaryRef(1)] = run[r].baseInitialSha]
  /\ run' = [run EXCEPT ![r].commits = run[r].prCommits,
                        ![r].head = RebaseTemporaryRef(1),
                        ![r].cpCaller = "rebase",
                        ![r].pc = "cp_fetchHead"]
  /\ UNCHANGED <<pulls, comments, aux>>

RbCreateTemp(r) ==
  /\ run[r].pc = "rb_createTemp"
  /\ refs' = [refs EXCEPT ![RebaseTemporaryRef(r)] = run[r].baseInitialSha]
  /\ run' = [run EXCEPT ![r].commits = run[r].prCommits,
                        ![r].head = RebaseTemporaryRef(r),
                        ![r].cpCaller = "rebase",
                        ![r].pc = "cp_fetchHead"]
  /\ UNCHANGED <<pulls, comments, aux>>

\* checkSameHead without its throw: the difference is only logged.
RbCheckSameHeadIgnored(r) ==
  /\ run[r].pc = "rb_checkSameHead"
  /\ run' = [run EXCEPT ![r].pc = "rb_updateHead"]
  /\ aux' = [aux EXCEPT !.atCheck[r] = refs[run[r].headRef]]
  /\ UNCHANGED <<refs, pulls, comments>>

\* checkSameHead: the head's tip must still be the one read at the start.
RbCheckSameHead(r) ==
  /\ run[r].pc = "rb_checkSameHead"
  /\ run' = [run EXCEPT
       ![r].error =
          IF refs[run[r].headRef] = NoSha THEN "notFound"
          ELSE IF fetchReferenceSha(run[r].headRef) # run[r].prHeadInitialSha
                 THEN "headChanged" ELSE "none",
       ![r].pc =
          IF refs[run[r].headRef] = NoSha
             \/ fetchReferenceSha(run[r].headRef) # run[r].prHeadInitialSha
            THEN "rb_deleteTemp" ELSE "rb_updateHead"]
  /\ aux' = [aux EXCEPT !.atCheck[r] = refs[run[r].headRef]]
  /\ UNCHANGED <<refs, pulls, comments>>

\* updateReference force: true of the head branch to the rebased tip.
RbUpdateHead(r) ==
  /\ run[r].pc = "rb_updateHead"
  /\ IF UpdateAccepted(TRUE, run[r].headRef, run[r].newSha)
       THEN /\ refs' = [refs EXCEPT ![run[r].headRef] = run[r].newSha]
            /\ run' = [run EXCEPT ![r].pc = "rb_deleteTemp"]
            /\ aux' = [aux EXCEPT !.overwritten[r] = refs[run[r].headRef]]
       ELSE /\ run' = [run EXCEPT ![r].error = "notFound",
                                  ![r].pc = "rb_deleteTemp"]
            /\ UNCHANGED <<refs, pulls, comments, aux>>
  /\ UNCHANGED <<pulls, comments>>

\* rebasePullRequest returns the new tip or rethrows.  Called by rebase
\* (doRebase), its return leads to withLabelLock's addLabels when the lock is
\* held and to rebase's return otherwise; its error leads to rebase's catch.
RbReturn(r) ==
  IF run[r].rbCaller = "rebase"
    THEN [run EXCEPT
            ![r].returned = IF run[r].error = "none"
                              THEN run[r].newSha ELSE NoSha,
            ![r].action = IF run[r].error = "none" /\ ~run[r].label
                            THEN "rebase" ELSE "none",
            ![r].pc = IF run[r].error # "none" THEN "rf_getPull"
                      ELSE IF run[r].label THEN "lk_addLabels" ELSE "done"]
    ELSE [run EXCEPT ![r].returned = IF run[r].error = "none"
                                       THEN run[r].newSha ELSE NoSha,
                     ![r].pc = "done"]

\* The temporary branch deleted after the action without a finally block.
RbDeleteTempNoFinally(r) ==
  /\ run[r].pc = "rb_deleteTemp"
  /\ refs' = [refs EXCEPT ![RebaseTemporaryRef(r)] =
                 IF run[r].error = "none" THEN NoSha ELSE @]
  /\ run' = RbReturn(r)
  /\ UNCHANGED <<pulls, comments, aux>>

\* withTemporaryReference's finally: the temporary branch is deleted.
RbDeleteTemp(r) ==
  /\ run[r].pc = "rb_deleteTemp"
  /\ refs' = [refs EXCEPT ![RebaseTemporaryRef(r)] = NoSha]
  /\ run' = RbReturn(r)
  /\ UNCHANGED <<pulls, comments, aux>>

\* ------------------------------------------------ pull requests (host)
\* The host cannot merge the head branch into the base branch.
Conflicts(n) ==
  LET h == TreeOf(refs[pulls[n].head])
      b == TreeOf(refs[pulls[n].base])
  IN  \E x \in h \ b : \E y \in b \ h : {x, y} \in Conflicting

\* The head branch does not contain the base branch's tip.
Behind(n) == ~IsAncestor(refs[pulls[n].base], refs[pulls[n].head])

\* The host computes mergeability in the background, after each change of
\* one of the two branches; until then it answers "unknown" (and null).
MergeabilityComputed(n) ==
  pulls[n].computedFor = <<refs[pulls[n].base], refs[pulls[n].head]>>

MergeableStateOf(n) ==
  IF ~MergeabilityComputed(n) THEN "unknown"
  ELSE IF Conflicts(n) THEN "dirty"
  ELSE IF Behind(n) THEN "behind"
  ELSE pulls[n].checks

Mergeable(n) == MergeabilityComputed(n) /\ ~Conflicts(n)

HostComputesMergeability(n) ==
  /\ ~MergeabilityComputed(n)
  /\ pulls' = [pulls EXCEPT
       ![n].computedFor = <<refs[pulls[n].base], refs[pulls[n].head]>>]
  /\ UNCHANGED <<refs, comments, run, aux>>

\* getPullRequestInfo applied to the response of GET /pulls/:number.
getPullRequestInfo(n) ==
  [base |-> pulls[n].base, head |-> pulls[n].head,
   labeledAndOpenedAndRebaseable |->
     pulls[n].labeled /\ ~pulls[n].closed /\ Mergeable(n),
   mergeableState |-> MergeableStateOf(n),
   merged |-> pulls[n].merged,
   pullRequestNumber |-> n,
   sha |-> refs[pulls[n].head]]

isMergeableStateKnown(n) ==
  pulls[n].closed \/ MergeableStateOf(n) # "unknown"

\* The numbers a set of pull requests is listed with, oldest first.
RECURSIVE Ascending(_)
Ascending(S) ==
  IF S = {} THEN <<>>
  ELSE LET m == CHOOSE x \in S : \A y \in S : x <= y
       IN  <<m>> \o Ascending(S \ {m})

\* GET /search/issues with is:pr is:open label:"<label>" and one more
\* qualifier: a commit id (the pull requests having that commit) or
\* base:<branch>.
SearchResults(predicate, sha, base) ==
  Ascending({n \in PullNumbers :
     /\ ~pulls[n].closed
     /\ pulls[n].labeled
     /\ IF predicate = "sha"
          THEN \E i \in DOMAIN fetchCommits(n) : fetchCommits(n)[i] = sha
          ELSE pulls[n].base = base})

\* PUT /pulls/:number/merge with merge_method rebase puts the pull request's
\* commits on top of the base branch.
RECURSIVE RebasedOnto(_, _)
RebasedOnto(tip, cs) ==
  IF cs = <<>> THEN tip
  ELSE RebasedOnto(CreateCommit(tip, MessageOf(Head(cs)),
                                TreeOf(tip) \cup TreeOf(Head(cs))),
                   Tail(cs))

\* The base branch being protected (reviews, checks, up to date before
\* merging), the host refuses to merge unless everything is fulfilled.
MergeAccepted(n) ==
  /\ ~pulls[n].closed
  /\ refs[pulls[n].head] # NoSha
  /\ ~Conflicts(n)
  /\ ~Behind(n)
  /\ pulls[n].checks \in {"clean", "unstable"}

\* ----------------------------------------------------------- autorebase
\* The positions of an invocation inside rebasePullRequest.
EnginePcs ==
  {"rb_getPull", "rb_fetchBase", "rb_fetchCommits", "rb_createTemp",
   "cp_fetchHead", "cp_createTemp", "cp_merge", "cp_createCommit",
   "cp_updateTemp", "cp_updateHead", "cp_deleteTemp", "rb_checkSameHead",
   "rb_updateHead", "rb_deleteTemp"}

\* The invocations between withLabelLock's removeLabel and its addLabels for
\* pull request n.
LockHolders(n) ==
  {h \in Runs : /\ run[h].rbCaller = "rebase" /\ run[h].label
                /\ run[h].number = n
                /\ run[h].pc \in EnginePcs \cup {"lk_addLabels"}}

\* The commit a fixup!/squash! message targets ("": not such a message).
FixupTarget(msg) ==
  IF msg = "fixup! B" THEN "B" ELSE IF msg = "squash! C" THEN "C" ELSE ""

\* needAutosquashing: the pull request has a fixup!/squash! commit whose
\* target is the message of one of its earlier commits.
needAutosquashing(n) ==
  LET cs == fetchCommits(n)
  IN  \E i, j \in DOMAIN cs :
        i < j /\ FixupTarget(MessageOf(cs[j])) = MessageOf(cs[i])

requireWriteAccessForOneTimeRebase(permission) ==
  permission = "admin" \/ permission = "write"

\* isAutorebaseSamePullRequestEvent without the payload's mergeable and
\* closed_at.
isAutorebaseSamePullRequestEventByAction(r) ==
  LET e == run[r].event
  IN  /\ e.name = "pull_request"
      /\ \/ e.action = "opened"
         \/ e.action = "synchronize"
         \/ e.action = "labeled" /\ e.labelIsLabel

isAutorebaseSamePullRequestEvent(r) ==
  LET e == run[r].event
  IN  /\ e.name = "pull_request"
      /\ \/ e.action = "opened"
         \/ e.action = "synchronize"
         \/ e.action = "labeled" /\ e.labelIsLabel
      /\ e.mergeable \/ run[r].forceRebase
      /\ ~e.closed

isRebasePullRequestOnSameBaseEvent(r) ==
  LET e == run[r].event
  IN  e.name = "pull_request" /\ e.action = "closed" /\ e.merged

isMergeEvent(r) == run[r].event.name = "pull_request_review"

\* return {type} and throw new Error(message) of the entry point.
Return(rec, type) == [rec EXCEPT !.action = type, !.pc = "done"]
Throw(rec, message) == [rec EXCEPT !.thrown = message, !.pc = "done"]

\* merge({head: pullRequest.head, pullRequestNumber}) up to its first request.
CallMerge(rec, info) ==
  [rec EXCEPT !.pullRequest = info, !.number = info.pullRequestNumber,
              !.pc = "mg_merge"]

\* rebase({label, pullRequestNumber}) up to its first request: the label's
\* removal with a label, rebasePullRequest's first request without.
CallRebase(rec, number, label) ==
  [rec EXCEPT !.number = number, !.label = label, !.rbCaller = "rebase",
              !.pc = IF label THEN "lk_removeLabel" ELSE "rb_getPull"]

\* findOldestPullRequest up to its search request.
CallFindOldestPullRequest(rec, predicate, info) ==
  [rec EXCEPT !.predicate = predicate, !.pullRequest = info,
              !.pc = "fo_search"]

\* autorebase: the event's dispatch, up to the first request of the branch.
Autorebase(r) ==
  LET e == run[r].event
  IN  /\ run[r].pc = "ar_start"
      /\ run' = [run EXCEPT ![r] =
           IF e.name = "issue_comment"
             THEN IF e.command /\ e.isPullRequest
                    THEN [@ EXCEPT !.number = e.number,
                                   !.pc = "ot_getPermission"]
                    ELSE Return(@, "nop")
           ELSE IF e.name \in {"check_run", "status"}
             THEN CallFindOldestPullRequest(@, "sha", NoInfo)
           ELSE IF \/ isAutorebaseSamePullRequestEvent(r)
                   \/ isRebasePullRequestOnSameBaseEvent(r)
                   \/ isMergeEvent(r)
             THEN [@ EXCEPT !.pc = "ar_getInfo"]
           ELSE Return(@, "nop")]
      /\ UNCHANGED <<refs, pulls, comments, aux>>

\* getPullRequestInfoWithKnownMergeableState of the event's pull request
\* (the request is retried until the mergeable state is known), then the
\* choice between autorebasePullRequest, findAndRebasePullRequestOnSameBase,
\* merge and nop.
\* The dispatch calling merge on whatever the pull request's snapshot says.
ArGetInfoMergeAny(r) ==
  LET n == run[r].event.number
      info == getPullRequestInfo(n)
  IN  /\ run[r].pc = "ar_getInfo"
      /\ isMergeableStateKnown(n)
      /\ run' = [run EXCEPT ![r] =
           IF /\ isAutorebaseSamePullRequestEvent(r)
              /\ run[r].forceRebase \/ info.labeledAndOpenedAndRebaseable
             THEN [@ EXCEPT !.pullRequest = info,
                            !.pc = "ap_needAutosquashing"]
           ELSE IF isRebasePullRequestOnSameBaseEvent(r)
             THEN CallFindOldestPullRequest(@, "behind", info)
           ELSE CallMerge(@, info)]
      /\ UNCHANGED <<refs, pulls, comments, aux>>

ArGetInfo(r) ==
  LET n == run[r].event.number
      info == getPullRequestInfo(n)
  IN  /\ run[r].pc = "ar_getInfo"
      /\ isMergeableStateKnown(n)
      /\ run' = [run EXCEPT ![r] =
           IF /\ isAutorebaseSamePullRequestEvent(r)
              /\ run[r].forceRebase \/ info.labeledAndOpenedAndRebaseable
             THEN [@ EXCEPT !.pullRequest = info,
                            !.pc = "ap_needAutosquashing"]
           ELSE IF isRebasePullRequestOnSameBaseEvent(r)
             THEN CallFindOldestPullRequest(@, "behind", info)
           ELSE IF info.labeledAndOpenedAndRebaseable
             THEN CallMerge(@, info)
           ELSE Return(@, "nop")]
      /\ UNCHANGED <<refs, pulls, comments, aux>>

\* autorebasePullRequest of the versions that had no forceRebase parameter.
ApNeedAutosquashingUnforced(r) ==
  LET info == run[r].pullRequest
      shouldBeRebased ==
        \/ needAutosquashing(info.pullRequestNumber)
        \/ info.mergeableState = "behind"
  IN  /\ run[r].pc = "ap_needAutosquashing"
      /\ run' = [run EXCEPT ![r] =
           IF shouldBeRebased
             THEN CallRebase(@, info.pullRequestNumber, TRUE)
           ELSE IF info.mergeableState = "clean"
             THEN CallMerge(@, info)
           ELSE Return(@, "nop")]
      /\ UNCHANGED <<refs, pulls, comments, aux>>

\* autorebasePullRequest: needAutosquashing's request, then rebase, merge or
\* nop.
ApNeedAutosquashing(r) ==
  LET info == run[r].pullRequest
      shouldBeRebased ==
        \/ run[r].forceRebase
        \/ needAutosquashing(info.pullRequestNumber)
        \/ info.mergeableState = "behind"
  IN  /\ run[r].pc = "ap_needAutosquashing"
      /\ run' = [run EXCEPT ![r] =
           IF shouldBeRebased
             THEN CallRebase(@, info.pullRequestNumber, TRUE)
           ELSE IF info.mergeableState = "clean"
             THEN CallMerge(@, info)
           ELSE Return(@, "nop")]
      /\ UNCHANGED <<refs, pulls, comments, aux>>

\* The callers of findOldestPullRequest, the one of autorebase leaving a
\* blocked pull request at that.
FoReturnBlockedLeft(rec, info) ==
  IF rec.predicate = "sha"
    THEN IF info.pullRequestNumber = 0 THEN Return(rec, "nop")
         ELSE IF info.mergeableState = "clean" THEN CallMerge(rec, info)
         ELSE Return(rec, "nop")
    ELSE IF info.pullRequestNumber = 0 THEN Return(rec, "nop")
         ELSE CallRebase(rec, info.pullRequestNumber, TRUE)

\* What the caller of findOldestPullRequest does with its result: autorebase
\* after findAutorebaseablePullRequestMatchingSha (merge when clean, another
\* pull request's rebase when blocked), findAndRebasePullRequestOnSameBase
\* after its own search (rebase through the lock).
FoReturn(rec, info) ==
  IF rec.predicate = "sha"
    THEN IF info.pullRequestNumber = 0 THEN Return(rec, "nop")
         ELSE IF info.mergeableState = "clean" THEN CallMerge(rec, info)
         ELSE IF info.mergeableState = "blocked"
           THEN CallFindOldestPullRequest(rec, "behind", info)
         ELSE Return(rec, "nop")
    ELSE IF info.pullRequestNumber = 0 THEN Return(rec, "nop")
         ELSE CallRebase(rec, info.pullRequestNumber, TRUE)

\* The numbers a set of pull requests is listed with, newest first.
RECURSIVE Descending(_)
Descending(S) ==
  IF S = {} THEN <<>>
  ELSE LET m == CHOOSE x \in S : \A y \in S : x >= y
       IN  <<m>> \o Descending(S \ {m})

\* findOldestPullRequest with order: "desc".
FoSearchNewestFirst(r) ==
  LET results == SearchResults(run[r].predicate, run[r].event.sha,
                               run[r].pullRequest.base)
      numbers == Descending({results[i] : i \in DOMAIN results})
  IN  /\ run[r].pc = "fo_search"
      /\ run' = [run EXCEPT ![r] =
           IF numbers = <<>> THEN FoReturn(@, NoInfo)
           ELSE [@ EXCEPT !.numbers = numbers, !.pc = "fo_getInfo"]]
      /\ UNCHANGED <<refs, pulls, comments, aux>>

\* findOldestPullRequest: the paginated search.
FoSearch(r) ==
  LET numbers == SearchResults(run[r].predicate, run[r].event.sha,
                               run[r].pullRequest.base)
  IN  /\ run[r].pc = "fo_search"
      /\ run' = [run EXCEPT ![r] =
           IF numbers = <<>> THEN FoReturn(@, NoInfo)
           ELSE [@ EXCEPT !.numbers = numbers, !.pc = "fo_getInfo"]]
      /\ UNCHANGED <<refs, pulls, comments, aux>>

\* findOldestPullRequest going through every result and keeping the last
\* one: a match is returned only when no result is left.
FoGetInfoExhaustive(r) ==
  LET n == Head(run[r].numbers)
      info == getPullRequestInfo(n)
      matchingPredicate ==
        IF run[r].predicate = "sha"
          THEN info.labeledAndOpenedAndRebaseable
               /\ info.sha = run[r].event.sha
          ELSE info.mergeableState = "behind"
  IN  /\ run[r].pc = "fo_getInfo"
      /\ isMergeableStateKnown(n)
      /\ run' = [run EXCEPT ![r] =
           IF Tail(run[r].numbers) # <<>>
             THEN [@ EXCEPT !.numbers = Tail(run[r].numbers)]
           ELSE IF matchingPredicate THEN FoReturn(@, info)
           ELSE FoReturn(@, NoInfo)]
      /\ UNCHANGED <<refs, pulls, comments, aux>>

\* findOldestPullRequest reading the first result only.
FoGetInfoFirstOnly(r) ==
  LET n == Head(run[r].numbers)
      info == getPullRequestInfo(n)
      matchingPredicate ==
        IF run[r].predicate = "sha"
          THEN info.labeledAndOpenedAndRebaseable
               /\ info.sha = run[r].event.sha
          ELSE info.mergeableState = "behind"
  IN  /\ run[r].pc = "fo_getInfo"
      /\ isMergeableStateKnown(n)
      /\ run' = [run EXCEPT ![r] =
           IF matchingPredicate THEN FoReturn(@, info)
           ELSE FoReturn(@, NoInfo)]
      /\ UNCHANGED <<refs, pulls, comments, aux>>

\* findOldestPullRequest on a base branch taking the oldest pull request,
\* whatever its mergeable state.
FoGetInfoAnyState(r) ==
  LET n == Head(run[r].numbers)
      info == getPullRequestInfo(n)
      matchingPredicate ==
        IF run[r].predicate = "sha"
          THEN info.labeledAndOpenedAndRebaseable
               /\ info.sha = run[r].event.sha
          ELSE TRUE
  IN  /\ run[r].pc = "fo_getInfo"
      /\ isMergeableStateKnown(n)
      /\ run' = [run EXCEPT ![r] =
           IF matchingPredicate THEN FoReturn(@, info)
           ELSE IF Tail(run[r].numbers) = <<>> THEN FoReturn(@, NoInfo)
           ELSE [@ EXCEPT !.numbers = Tail(run[r].numbers)]]
      /\ UNCHANGED <<refs, pulls, comments, aux>>

\* findOldestPullRequest: the reduce over the numbers, one
\* getPullRequestInfoWithKnownMergeableState at a time, stopping at the
\* first pull request that matches the predicate.
FoGetInfo(r) ==
  LET n == Head(run[r].numbers)
      info == getPullRequestInfo(n)
      matchingPredicate ==
        IF run[r].predicate = "sha"
          THEN info.labeledAndOpenedAndRebaseable
               /\ info.sha = run[r].event.sha
          ELSE info.mergeableState = "behind"
  IN  /\ run[r].pc = "fo_getInfo"
      /\ isMergeableStateKnown(n)
      /\ run' = [run EXCEPT ![r] =
           IF matchingPredicate THEN FoReturn(@, info)
           ELSE IF Tail(run[r].numbers) = <<>> THEN FoReturn(@, NoInfo)
           ELSE [@ EXCEPT !.numbers = Tail(run[r].numbers)]]
      /\ UNCHANGED <<refs, pulls, comments, aux>>

\* The label removed whether or not the pull request carries it.
LkRemoveLabelAlways(r) ==
  LET n == run[r].number
  IN  /\ run[r].pc = "lk_removeLabel"
      /\ pulls' = [pulls EXCEPT ![n].labeled = FALSE]
      /\ run' = [run EXCEPT ![r].pc = "rb_getPull"]
      /\ aux' = [aux EXCEPT !.acquired[r] = TRUE]
      /\ UNCHANGED <<refs, comments>>

\* withLabelLock without the catch around removeLabel: the host's refusal
\* is an error of the guarded rebase.
LkRemoveLabelThrowing(r) ==
  LET n == run[r].number
  IN  /\ run[r].pc = "lk_removeLabel"
      /\ IF pulls[n].labeled
           THEN /\ pulls' = [pulls EXCEPT ![n].labeled = FALSE]
                /\ run' = [run EXCEPT ![r].pc = "rb_getPull"]
                /\ aux' = [aux EXCEPT !.acquired[r] = TRUE]
           ELSE /\ run' = [run EXCEPT ![r].error = "labelNotFound",
                                      ![r].pc = "rf_getPull"]
                /\ aux' = [aux EXCEPT !.holders[r] = LockHolders(n)]
                /\ UNCHANGED pulls
      /\ UNCHANGED <<refs, comments>>

\* withLabelLock, acquiring: DELETE /issues/:number/labels/:name, which the
\* host refuses when the pull request does not carry the label; rebase then
\* returns abort.
LkRemoveLabel(r) ==
  LET n == run[r].number
  IN  /\ run[r].pc = "lk_removeLabel"
      /\ IF pulls[n].labeled
           THEN /\ pulls' = [pulls EXCEPT ![n].labeled = FALSE]
                /\ run' = [run EXCEPT ![r].pc = "rb_getPull"]
                /\ aux' = [aux EXCEPT !.acquired[r] = TRUE]
           ELSE /\ run' = [run EXCEPT ![r] = Return(@, "abort")]
                /\ aux' = [aux EXCEPT !.holders[r] = LockHolders(n)]
                /\ UNCHANGED pulls
      /\ UNCHANGED <<refs, comments>>

\* withLabelLock returning without putting the label back.
LkAddLabelsSkipped(r) ==
  /\ run[r].pc = "lk_addLabels"
  /\ run' = [run EXCEPT ![r] = Return(@, "rebase")]
  /\ UNCHANGED <<refs, pulls, comments, aux>>

\* rebase going on with the merge of the pull request it rebased.
LkAddLabelsThenMerge(r) ==
  /\ run[r].pc = "lk_addLabels"
  /\ pulls' = [pulls EXCEPT ![run[r].number].labeled = TRUE]
  /\ run' = [run EXCEPT ![r].pc = "mg_merge"]
  /\ UNCHANGED <<refs, comments, aux>>

\* withLabelLock, releasing: POST /issues/:number/labels after the action
\* returned; rebase then returns rebase.
LkAddLabels(r) ==
  /\ run[r].pc = "lk_addLabels"
  /\ pulls' = [pulls EXCEPT ![run[r].number].labeled = TRUE]
  /\ run' = [run EXCEPT ![r] = Return(@, "rebase")]
  /\ UNCHANGED <<refs, comments, aux>>

\* rebase's catch, first request: the pull request's branch names.
RfGetPull(r) ==
  /\ run[r].pc = "rf_getPull"
  /\ run' = [run EXCEPT ![r].baseRef = pulls[run[r].number].base,
                        ![r].headRef = pulls[run[r].number].head,
                        ![r].pc = "rf_createComment"]
  /\ UNCHANGED <<refs, pulls, comments, aux>>

\* rebase's catch putting the label back before it comments.
RfCreateCommentReleasing(r) ==
  /\ run[r].pc = "rf_createComment"
  /\ pulls' = [pulls EXCEPT ![run[r].number].labeled = TRUE]
  /\ comments' = [comments EXCEPT ![run[r].number] =
       Append(@, [body |-> "The rebase failed:",
                  message |-> run[r].error,
                  worktree |-> run[r].headRef,
                  onto |-> run[r].baseRef])]
  /\ run' = [run EXCEPT ![r] = Throw(@, "rebase failed")]
  /\ UNCHANGED <<refs, aux>>

\* rebase's catch without its comment.
RfCreateCommentSkipped(r) ==
  /\ run[r].pc = "rf_createComment"
  /\ run' = [run EXCEPT ![r] = Throw(@, "rebase failed")]
  /\ UNCHANGED <<refs, pulls, comments, aux>>

\* rebase's catch, second request: the comment with the error's message and
\* the commands of a manual rebase, then throw new Error("rebase failed").
RfCreateComment(r) ==
  /\ run[r].pc = "rf_createComment"
  /\ comments' = [comments EXCEPT ![run[r].number] =
       Append(@, [body |-> "The rebase failed:",
                  message |-> run[r].error,
                  worktree |-> run[r].headRef,
                  onto |-> run[r].baseRef])]
  /\ run' = [run EXCEPT ![r] = Throw(@, "rebase failed")]
  /\ UNCHANGED <<refs, pulls, aux>>

\* merge going on to deleteRef when the host refused the merge.
MgMergeRefusalIgnored(r) ==
  LET n == run[r].number
  IN  /\ run[r].pc = "mg_merge"
      /\ IF MergeAccepted(n)
           THEN /\ refs' = [refs EXCEPT ![pulls[n].base] =
                     RebasedOnto(refs[pulls[n].base], fetchCommits(n))]
                /\ pulls' = [pulls EXCEPT ![n].closed = TRUE,
                                          ![n].merged = TRUE]
                /\ run' = [run EXCEPT ![r].pc = "mg_deleteRef"]
           ELSE /\ run' = [run EXCEPT ![r].pc = "mg_deleteRef"]
                /\ UNCHANGED <<refs, pulls>>
      /\ UNCHANGED <<comments, aux>>

\* merge, first request: PUT /pulls/:number/merge with merge_method rebase.
\* The host's refusal is an error nothing catches.
MgMerge(r) ==
  LET n == run[r].number
  IN  /\ run[r].pc = "mg_merge"
      /\ IF MergeAccepted(n)
           THEN /\ refs' = [refs EXCEPT ![pulls[n].base] =
                     RebasedOnto(refs[pulls[n].base], fetchCommits(n))]
                /\ pulls' = [pulls EXCEPT ![n].closed = TRUE,
                                          ![n].merged = TRUE]
                /\ run' = [run EXCEPT ![r].pc = "mg_deleteRef"]
           ELSE /\ run' = [run EXCEPT ![r] = Throw(@, "merge refused")]
                /\ UNCHANGED <<refs, pulls>>
      /\ UNCHANGED <<comments, aux>>

\* merge, second request: deleteRef of the head branch, then the merge
\* action is returned.
MgDeleteRef(r) ==
  LET head == run[r].pullRequest.head
  IN  /\ run[r].pc = "mg_deleteRef"
      /\ IF refs[head] # NoSha
           THEN /\ refs' = [refs EXCEPT ![head] = NoSha]
                /\ run' = [run EXCEPT ![r] = Return(@, "merge")]
           ELSE /\ run' = [run EXCEPT ![r] = Throw(@, "reference not found")]
                /\ UNCHANGED refs
      /\ UNCHANGED <<pulls, comments, aux>>

\* rebaseOneTime calling rebase with the label, as the other callers do.
OtGetPermissionLocked(r) ==
  /\ run[r].pc = "ot_getPermission"
  /\ run' = [run EXCEPT ![r] =
       IF requireWriteAccessForOneTimeRebase(run[r].event.permission)
         THEN CallRebase(@, run[r].number, TRUE)
         ELSE [@ EXCEPT !.pc = "ot_createComment"]]
  /\ UNCHANGED <<refs, pulls, comments, aux>>

\* rebaseOneTime, first request: the commenter's permission level; then
\* rebase without the label, or the denial.
OtGetPermission(r) ==
  /\ run[r].pc = "ot_getPermission"
  /\ run' = [run EXCEPT ![r] =
       IF requireWriteAccessForOneTimeRebase(run[r].event.permission)
         THEN CallRebase(@, run[r].number, FALSE)
         ELSE [@ EXCEPT !.pc = "ot_createComment"]]
  /\ UNCHANGED <<refs, pulls, comments, aux>>

\* rebaseOneTime, denied, without its comment.
OtCreateCommentSkipped(r) ==
  /\ run[r].pc = "ot_createComment"
  /\ run' = [run EXCEPT ![r] = Return(@, "deny-one-time-rebase")]
  /\ UNCHANGED <<refs, pulls, comments, aux>>

\* rebaseOneTime, denied, returning nop after its comment.
OtCreateCommentNop(r) ==
  /\ run[r].pc = "ot_createComment"
  /\ comments' = [comments EXCEPT ![run[r].number] =
       Append(@, [body |-> "Rebase commands can only be submitted by collaborators with write permission on the repository.",
                  message |-> "none",
                  worktree |-> MasterRef,
                  onto |-> MasterRef])]
  /\ run' = [run EXCEPT ![r] = Return(@, "nop")]
  /\ UNCHANGED <<refs, pulls, aux>>

\* rebaseOneTime, denied: the comment, then deny-one-time-rebase.
OtCreateComment(r) ==
  /\ run[r].pc = "ot_createComment"
  /\ comments' = [comments EXCEPT ![run[r].number] =
       Append(@, [body |-> "Rebase commands can only be submitted by collaborators with write permission on the repository.",
                  message |-> "none",
                  worktree |-> MasterRef,
                  onto |-> MasterRef])]
  /\ run' = [run EXCEPT ![r] = Return(@, "deny-one-time-rebase")]
  /\ UNCHANGED <<refs, pulls, aux>>

\* rebasePullRequest as rebase's doRebase runs it.
Engine(r) ==
  \/ RbGetPull(r)
  \/ RbFetchBase(r)
  \/ RbFetchCommits(r)
  \/ RbCreateTemp(r)
  \/ CpFetchHead(r)
  \/ CpCreateTemp(r)
  \/ CpMerge(r)
  \/ CpCreateCommit(r)
  \/ CpUpdateTemp(r)
  \/ CpUpdateHead(r)
  \/ CpDeleteTemp(r)
  \/ RbCheckSameHead(r)
  \/ RbUpdateHead(r)
  \/ RbDeleteTemp(r)

\* ------------------------------------------------------- other actors
\* Commits another actor may set a branch to: a reset to the root, a push on
\* top of the initial tip, an unrelated history.
ExternalShas ==
  {Linear(<<"A">>), Linear(<<"A", "D", "X">>), Linear(<<"A", "Z">>)}

\* cherryPickCommits between its read of the target and its final update.
CpWindow ==
  {"cp_createTemp", "cp_merge", "cp_createCommit", "cp_updateTemp",
   "cp_updateHead"}

ExternalUpdate(ref) ==
  /\ aux.external < MaxExternal
  /\ refs[ref] # NoSha
  /\ \E sha \in ExternalShas :
       /\ sha # refs[ref]
       /\ refs' = [refs EXCEPT ![ref] = sha]
       /\ aux' = [aux EXCEPT
            !.external = aux.external + 1,
            !.lastExternal = sha,
            !.inWindow = [r \in Runs |->
               @[r] \/ (run[r].pc \in CpWindow /\ run[r].head = ref)]]
  /\ UNCHANGED <<run, pulls, comments>>

\* A push: one more commit on top of the branch's tip.
PushMessages == {"X", "Y"}

Push(ref) ==
  /\ aux.external < MaxExternal
  /\ refs[ref] # NoSha
  /\ \E msg \in PushMessages \ TreeOf(refs[ref]) :
       LET sha == CreateCommit(refs[ref], msg, TreeOf(refs[ref]) \cup {msg})
       IN  /\ refs' = [refs EXCEPT ![ref] = sha]
           /\ aux' = [aux EXCEPT
                !.external = aux.external + 1,
                !.lastExternal = sha,
                !.inGap = [r \in Runs |->
                   @[r] \/ (run[r].pc = "rb_updateHead"
                            /\ run[r].headRef = ref)]]
  /\ UNCHANGED <<run, pulls, comments>>

\* ------------------------------------------- cherryPickCommits alone
\* The commits a caller may ask to pick: from a branch A-B-C and a commit K
\* whose change conflicts with D.
PickableCommits ==
  {Linear(<<"A", "B">>), Linear(<<"A", "B", "C">>), Linear(<<"A", "K">>)}

RECURSIVE CommitLists(_)
CommitLists(n) ==
  IF n = 0 THEN {<<>>}
  ELSE CommitLists(n - 1) \cup
       {Append(l, c) : l \in {m \in CommitLists(n - 1) : Len(m) = n - 1},
                       c \in PickableCommits}

InitRefs ==
  [ref \in RefNames |->
     IF ref = MasterRef THEN Linear(<<"A", "D">>) ELSE NoSha]

\* external, lastExternal: the other actors' writes.  inWindow, atUpdate:
\* cherryPickCommits' target written during the call, and what the final
\* update found there.  atCheck, overwritten, inGap: what checkSameHead
\* read, what rebasePullRequest's forced update replaced, and whether a push
\* landed between the two.  acquired: the invocation removed the label;
\* holders: the invocations that held the label lock when this one's removal
\* was refused.  later: the invocation started after a label-locked rebase
\* of pull request 1 had failed, and nobody has added the label since.
InitAux ==
  [external |-> 0, lastExternal |-> NoSha,
   inWindow |-> [r \in Runs |-> FALSE],
   atUpdate |-> [r \in Runs |-> NoSha],
   atCheck |-> [r \in Runs |-> NoSha],
   overwritten |-> [r \in Runs |-> NoSha],
   inGap |-> [r \in Runs |-> FALSE],
   acquired |-> [r \in Runs |-> FALSE],
   holders |-> [r \in Runs |-> {}],
   retried |-> [r \in Runs |-> FALSE],
   later |-> [r \in Runs |-> FALSE]]

\* A pull request on the host: its branches, closed_at and merged, whether it
\* carries the label, what its mergeable state is when it is neither
\* conflicting nor behind (the outcome of reviews and checks), and the tips
\* of its branches for which the host has computed its mergeability.
InitPulls ==
  [n \in PullNumbers |->
     [base |-> MasterRef, head |-> FeatureRef(n), closed |-> FALSE,
      merged |-> FALSE, labeled |-> FALSE, checks |-> "clean",
      computedFor |-> <<NoSha, NoSha>>]]

InitComments == [n \in PullNumbers |-> <<>>]

InitCherryPick ==
  /\ wrote = [r \in Runs |-> {}]
  /\ refs = InitRefs
  /\ pulls = InitPulls
  /\ comments = InitComments
  /\ aux = InitAux
  /\ \E commits \in CommitLists(MaxCommits) :
       run = [r \in Runs |->
                IF r = 1
                  THEN [IdleRun EXCEPT !.pc = "cp_fetchHead",
                                       !.commits = commits,
                                       !.head = MasterRef]
                  ELSE IdleRun]

CherryPickStep(r) ==
  \/ CpFetchHead(r)
  \/ CpCreateTemp(r)
  \/ CpMerge(r)
  \/ CpCreateCommit(r)
  \/ CpUpdateTemp(r)
  \/ CpUpdateHead(r)
  \/ CpDeleteTemp(r)

NextCherryPick ==
  \/ \E r \in Runs : CherryPickStep(r) /\ Track(r)
  \/ ExternalUpdate(MasterRef) /\ UNCHANGED wrote

SpecCherryPick == InitCherryPick /\ [][NextCherryPick]_vars

\* ------------------------------------------- rebasePullRequest alone
\* The pull request's own commits: up to MaxCommits of B, C and K (whose
\* change conflicts with D, on the base branch), on top of the root A.
RECURSIVE MessageLists(_)
MessageLists(n) ==
  IF n = 0 THEN {<<>>}
  ELSE MessageLists(n - 1) \cup
       {Append(l, m) : l \in {x \in MessageLists(n - 1) : Len(x) = n - 1},
                       m \in {"B", "C", "K"}}

Distinct(l) == \A i, j \in 1..Len(l) : i # j => l[i] # l[j]

InitRebase ==
  /\ wrote = [r \in Runs |-> {}]
  /\ pulls = InitPulls
  /\ comments = InitComments
  /\ aux = InitAux
  /\ \E msgs \in {l \in MessageLists(MaxCommits) : Distinct(l)} :
       refs = [InitRefs EXCEPT ![FeatureRef(1)] = Linear(<<"A">> \o msgs)]
  /\ run = [r \in Runs |->
              IF r = 1 THEN [IdleRun EXCEPT !.pc = "rb_getPull", !.number = 1]
              ELSE IdleRun]

RebaseStep(r) ==
  \/ RbGetPull(r)
  \/ RbFetchBase(r)
  \/ RbFetchCommits(r)
  \/ RbCreateTemp(r)
  \/ CpFetchHead(r)
  \/ CpCreateTemp(r)
  \/ CpMerge(r)
  \/ CpCreateCommit(r)
  \/ CpUpdateTemp(r)
  \/ CpUpdateHead(r)
  \/ CpDeleteTemp(r)
  \/ RbCheckSameHead(r)
  \/ RbUpdateHead(r)
  \/ RbDeleteTemp(r)

NextRebase ==
  \/ \E r \in Runs : RebaseStep(r) /\ Track(r)
  \/ Push(FeatureRef(1)) /\ UNCHANGED wrote
  \/ Push(MasterRef) /\ UNCHANGED wrote

SpecRebase == InitRebase /\ [][NextRebase]_vars

\* ------------------------- cherryPickCommits or rebasePullRequest alone
\* One call of either entry point, with the other actors of both.
InitGit == InitCherryPick \/ InitRebase

NextGit == NextCherryPick \/ NextRebase

SpecGit == InitGit /\ [][NextGit]_vars

\* ------------------------------------------------------- autorebase
\* One invocation of autorebase per event.
RunStep(r) ==
  \/ Autorebase(r)
  \/ ArGetInfo(r)
  \/ ApNeedAutosquashing(r)
  \/ FoSearch(r)
  \/ FoGetInfo(r)
  \/ LkRemoveLabel(r)
  \/ Engine(r)
  \/ LkAddLabels(r)
  \/ RfGetPull(r)
  \/ RfCreateComment(r)
  \/ MgMerge(r)
  \/ MgDeleteRef(r)
  \/ OtGetPermission(r)
  \/ OtCreateComment(r)

PullRequestEvent(action, number, labelIsLabel, mergeable) ==
  [NoEvent EXCEPT !.name = "pull_request", !.action = action,
                  !.number = number, !.labelIsLabel = labelIsLabel,
                  !.mergeable = mergeable]

\* The pull request's closure, merged or not.
ClosedEvent(number, merged) ==
  [NoEvent EXCEPT !.name = "pull_request", !.action = "closed",
                  !.number = number, !.closed = TRUE, !.merged = merged]

ReviewEvent(number) ==
  [NoEvent EXCEPT !.name = "pull_request_review", !.action = "submitted",
                  !.number = number]

StatusEvent(name, sha) == [NoEvent EXCEPT !.name = name, !.sha = sha]

CommentEvent(number, command, isPullRequest, permission) ==
  [NoEvent EXCEPT !.name = "issue_comment", !.action = "created",
                  !.number = number, !.command = command,
                  !.isPullRequest = isPullRequest,
                  !.permission = permission]

\* The repository of the tests: master is A-D, D being the merged pull
\* request 3 (closed, its branch deleted).  Pull request 1 is B on top of A
\* (behind), B on top of D (up to date), B and its fixup on top of D (up to
\* date, to autosquash) or K on top of A (conflicting with D); pull request
\* 2 is C on top of A, labeled.
Heads1 ==
  {Linear(<<"A", "B">>), Linear(<<"A", "D", "B">>),
   Linear(<<"A", "D", "B", "fixup! B">>), Linear(<<"A", "K">>)}

Repository(head1, labeled1, checks1, computed1) ==
  /\ refs = [InitRefs EXCEPT ![FeatureRef(1)] = head1,
                             ![FeatureRef(2)] = Linear(<<"A", "C">>)]
  /\ pulls = [InitPulls EXCEPT
       ![1].labeled = labeled1,
       ![1].checks = checks1,
       ![1].computedFor = IF computed1 THEN <<Linear(<<"A", "D">>), head1>>
                          ELSE <<NoSha, NoSha>>,
       ![2].labeled = TRUE,
       ![2].computedFor = <<Linear(<<"A", "D">>), Linear(<<"A", "C">>)>>,
       ![3].closed = TRUE,
       ![3].merged = TRUE,
       ![3].computedFor = <<Linear(<<"A", "D">>), NoSha>>]
  /\ comments = InitComments
  /\ aux = InitAux
  /\ wrote = [r \in Runs |-> {}]

\* The events one invocation may be given in that repository.
Events(head1) ==
  {PullRequestEvent(a, 1, l, m) :
     a \in {"opened", "labeled"}, l \in BOOLEAN, m \in BOOLEAN}
  \cup {PullRequestEvent("synchronize", 1, FALSE, m) : m \in BOOLEAN}
  \cup {[PullRequestEvent("labeled", 1, TRUE, TRUE) EXCEPT !.closed = TRUE]}
  \cup {ClosedEvent(3, TRUE), ClosedEvent(1, FALSE), ReviewEvent(1)}
  \cup {StatusEvent("status", head1),
        StatusEvent("check_run", Linear(<<"A", "D">>))}
  \cup {CommentEvent(1, c, TRUE, p) :
          c \in BOOLEAN, p \in {"write", "read"}}
  \cup {CommentEvent(1, TRUE, FALSE, "admin")}

Init ==
  \E head1 \in Heads1, labeled1 \in BOOLEAN,
     checks1 \in {"clean", "blocked"}, computed1 \in BOOLEAN :
    /\ Repository(head1, labeled1, checks1, computed1)
    /\ \E e \in Events(head1), forceRebase \in BOOLEAN :
         run = [r \in Runs |->
                  IF r = 1
                    THEN [IdleRun EXCEPT !.pc = "ar_start", !.event = e,
                                         !.forceRebase = forceRebase]
                    ELSE IdleRun]

Next ==
  \/ \E r \in Runs : RunStep(r) /\ Track(r)
  \/ \E n \in PullNumbers : HostComputesMergeability(n) /\ UNCHANGED wrote
  \/ Push(FeatureRef(1)) /\ UNCHANGED wrote

Spec == Init /\ [][Next]_vars

\* ------------------------------------------- concurrent invocations
\* Every invocation handles an event that can lead to a rebase of pull
\* request 1 (labeled, open, its mergeability computed): its labeling,
\* forced or not, the merge of pull request 3 on the same base, or a rebase
\* command of a collaborator (who may or may not write to the repository).
ConcurrentEvents ==
  <<<<PullRequestEvent("labeled", 1, TRUE, TRUE), FALSE>>,
    <<PullRequestEvent("labeled", 1, TRUE, TRUE), TRUE>>,
    <<ClosedEvent(3, TRUE), FALSE>>,
    <<CommentEvent(1, TRUE, TRUE, "write"), FALSE>>,
    <<CommentEvent(1, TRUE, TRUE, "read"), FALSE>>>>

\* The invocations differ by their events only: one assignment of events to
\* invocations is taken for each multiset of events.
InitConcurrent ==
  /\ \E head1 \in {Linear(<<"A", "B">>), Linear(<<"A", "K">>)} :
       Repository(head1, TRUE, "clean", TRUE)
  /\ \E es \in [Runs -> DOMAIN ConcurrentEvents] :
       /\ \A r \in Runs : r + 1 \in Runs => es[r] <= es[r + 1]
       /\ run = [r \in Runs |->
                   [IdleRun EXCEPT !.pc = "ar_start",
                                   !.event = ConcurrentEvents[es[r]][1],
                                   !.forceRebase = ConcurrentEvents[es[r]][2]]]

NextConcurrent ==
  \/ \E r \in Runs : RunStep(r) /\ Track(r)
  \/ \E n \in PullNumbers : HostComputesMergeability(n) /\ UNCHANGED wrote

SpecConcurrent == InitConcurrent /\ [][NextConcurrent]_vars

\* ---------------------------------------------------------- redelivery
\* The event of invocation 1 is delivered again, to the other invocations,
\* while invocation 1 holds the label lock of pull request 1.
InitRedelivery ==
  /\ \E head1 \in {Linear(<<"A", "B">>), Linear(<<"A", "K">>)} :
       Repository(head1, TRUE, "clean", TRUE)
  /\ \E e \in DOMAIN ConcurrentEvents :
       run = [r \in Runs |->
                [IdleRun EXCEPT !.pc = IF r = 1 THEN "ar_start" ELSE "idle",
                                !.event = ConcurrentEvents[e][1],
                                !.forceRebase = ConcurrentEvents[e][2]]]

Redeliver(r) ==
  /\ run[r].pc = "idle"
  /\ 1 \in LockHolders(1)
  /\ run' = [run EXCEPT ![r].pc = "ar_start"]
  /\ UNCHANGED <<refs, pulls, comments, aux, wrote>>

NextRedelivery ==
  \/ \E r \in Runs : RunStep(r) /\ Track(r)
  \/ \E r \in Runs : Redeliver(r)
  \/ \E n \in PullNumbers : HostComputesMergeability(n) /\ UNCHANGED wrote

SpecRedelivery == InitRedelivery /\ [][NextRedelivery]_vars

\* ------------------------------------------- the mergeable state resolver
\* checkKnownMergeableState returning its response without the assertion.
RsCheckKnownMergeableStateUnasserted(r) ==
  LET n == run[r].number
  IN  /\ run[r].pc = "rs_get"
      /\ run' = [run EXCEPT ![r].pullRequest = getPullRequestInfo(n),
                            ![r].pc = "done"]
      /\ UNCHANGED <<refs, pulls, comments, aux>>

\* promiseRetry's options: minTimeout is the one waitForKnownMergeableState
\* gives; retries is left to the library's default.
minTimeout == 500
retries == 10

\* checkKnownMergeableState: GET /pulls/:number, then the assertion that the
\* response is closed or has a known mergeable state; on success
\* getPullRequestInfoWithKnownMergeableState returns getPullRequestInfo of
\* the response, on failure promiseRetry schedules another attempt, and
\* rejects with the assertion's error once its retries are used up.
RsCheckKnownMergeableState(r) ==
  LET n == run[r].number
  IN  /\ run[r].pc = "rs_get"
      /\ run' = [run EXCEPT ![r] =
           IF isMergeableStateKnown(n)
             THEN [@ EXCEPT !.pullRequest = getPullRequestInfo(n),
                            !.pc = "done"]
           ELSE IF run[r].attempts < retries
             THEN [@ EXCEPT !.pc = "rs_retry"]
           ELSE Throw(@, "AssertionError")]
      /\ UNCHANGED <<refs, pulls, comments, aux>>

\* promiseRetry making the next attempt at once.
RsRetryImmediate(r) ==
  /\ run[r].pc = "rs_retry"
  /\ run' = [run EXCEPT ![r].attempts = @ + 1,
                        ![r].pc = "rs_get"]
  /\ aux' = [aux EXCEPT !.retried[r] = TRUE]
  /\ UNCHANGED <<refs, pulls, comments>>

\* promiseRetry's timeout (minTimeout, doubled at each retry), then the next
\* attempt.
RsRetry(r) ==
  /\ run[r].pc = "rs_retry"
  /\ run' = [run EXCEPT ![r].attempts = @ + 1,
                        ![r].timeout = minTimeout * 2 ^ run[r].attempts,
                        ![r].pc = "rs_get"]
  /\ aux' = [aux EXCEPT !.retried[r] = TRUE]
  /\ UNCHANGED <<refs, pulls, comments>>

\* Someone closes the pull request without merging it.
ClosePullRequest(n) ==
  /\ ~pulls[n].closed
  /\ pulls' = [pulls EXCEPT ![n].closed = TRUE]
  /\ UNCHANGED <<refs, comments, run, aux>>

\* The resolver is called for pull request 1 (any head, computed or not) or
\* for the closed pull request 3 (computed or not), while pushes and the
\* host's computation go on.
InitResolver ==
  \E head1 \in Heads1, checks1 \in {"clean", "blocked", "unstable"},
     computed1, computed3 \in BOOLEAN, n \in {1, 3} :
    /\ refs = [InitRefs EXCEPT ![FeatureRef(1)] = head1]
    /\ pulls = [InitPulls EXCEPT
         ![1].labeled = TRUE,
         ![1].checks = checks1,
         ![1].computedFor = IF computed1
                              THEN <<Linear(<<"A", "D">>), head1>>
                              ELSE <<NoSha, NoSha>>,
         ![2].closed = TRUE,
         ![2].computedFor = <<Linear(<<"A", "D">>), NoSha>>,
         ![3].closed = TRUE,
         ![3].merged = TRUE,
         ![3].computedFor = IF computed3
                              THEN <<Linear(<<"A", "D">>), NoSha>>
                              ELSE <<NoSha, NoSha>>]
    /\ comments = InitComments
    /\ aux = InitAux
    /\ wrote = [r \in Runs |-> {}]
    /\ run = [r \in Runs |->
                IF r = 1 THEN [IdleRun EXCEPT !.pc = "rs_get", !.number = n]
                ELSE IdleRun]

NextResolver ==
  \/ \E r \in Runs : RsCheckKnownMergeableState(r) /\ UNCHANGED wrote
  \/ \E r \in Runs : RsRetry(r) /\ UNCHANGED wrote
  \/ \E n \in {1, 3} : HostComputesMergeability(n) /\ UNCHANGED wrote
  \/ Push(FeatureRef(1)) /\ UNCHANGED wrote
  \/ ClosePullRequest(1) /\ UNCHANGED wrote

SpecResolver == InitResolver /\ [][NextResolver]_vars

\* Every request of the resolver returns and every timeout fires.
SpecResolverLive ==
  /\ SpecResolver
  /\ \A r \in Runs :
       /\ WF_vars(RsCheckKnownMergeableState(r) /\ UNCHANGED wrote)
       /\ WF_vars(RsRetry(r) /\ UNCHANGED wrote)

\* ------------------------------------------- findOldestPullRequest alone
\* Pull requests 1 and 2 are open on master (A-D), each behind or up to
\* date, labeled or not, clean or blocked, its mergeability computed or not;
\* pull request 2 may have the very commit of pull request 1 as its head.
\* The event is a status for one of the heads or the merge of pull request 3.
InitFind ==
  \E head1 \in {Linear(<<"A", "B">>), Linear(<<"A", "D", "B">>)},
     head2 \in {Linear(<<"A", "C">>), Linear(<<"A", "D", "C">>),
                Linear(<<"A", "D", "B">>)},
     labeled1, labeled2, computed1, computed2 \in BOOLEAN,
     checks1, checks2 \in {"clean", "blocked"} :
    /\ refs = [InitRefs EXCEPT ![FeatureRef(1)] = head1,
                               ![FeatureRef(2)] = head2]
    /\ pulls = [InitPulls EXCEPT
         ![1].labeled = labeled1,
         ![1].checks = checks1,
         ![1].computedFor = IF computed1
                              THEN <<Linear(<<"A", "D">>), head1>>
                              ELSE <<NoSha, NoSha>>,
         ![2].labeled = labeled2,
         ![2].checks = checks2,
         ![2].computedFor = IF computed2
                              THEN <<Linear(<<"A", "D">>), head2>>
                              ELSE <<NoSha, NoSha>>,
         ![3].closed = TRUE,
         ![3].merged = TRUE,
         ![3].computedFor = <<Linear(<<"A", "D">>), NoSha>>]
    /\ comments = InitComments
    /\ aux = InitAux
    /\ wrote = [r \in Runs |-> {}]
    /\ \E e \in {StatusEvent("status", head1), StatusEvent("check_run", head2),
                  ClosedEvent(3, TRUE)} :
         run = [r \in Runs |->
                  IF r = 1 THEN [IdleRun EXCEPT !.pc = "ar_start", !.event = e]
                  ELSE IdleRun]

\* The run up to the return of its last search.
NextFind ==
  \/ \E r \in Runs : Autorebase(r) /\ UNCHANGED wrote
  \/ \E r \in Runs : ArGetInfo(r) /\ UNCHANGED wrote
  \/ \E r \in Runs : FoSearch(r) /\ UNCHANGED wrote
  \/ \E r \in Runs : FoGetInfo(r) /\ UNCHANGED wrote
  \/ \E n \in PullNumbers : HostComputesMergeability(n) /\ UNCHANGED wrote

SpecFind == InitFind /\ [][NextFind]_vars

\* ------------------------------------------- a labeled pull request's life
\* Pull request 1 (B on top of A) is open, labeled and behind master (A-D):
\* pull request 3 has just been merged and its closed event is the first
\* invocation; pull request 2 is closed.  The host then sends the events of what happens to pull
\* request 1; an invocation that is over leaves its place to the next one.
InitLive ==
  /\ refs = [InitRefs EXCEPT ![FeatureRef(1)] = Linear(<<"A", "B">>)]
  /\ \E computed1 \in BOOLEAN :
       pulls = [InitPulls EXCEPT
         ![1].labeled = TRUE,
         ![1].checks = "blocked",
         ![1].computedFor =
            IF computed1 THEN <<Linear(<<"A", "D">>), Linear(<<"A", "B">>)>>
            ELSE <<NoSha, NoSha>>,
         ![2].closed = TRUE,
         ![2].computedFor = <<Linear(<<"A", "D">>), NoSha>>,
         ![3].closed = TRUE,
         ![3].merged = TRUE,
         ![3].computedFor = <<Linear(<<"A", "D">>), NoSha>>]
  /\ comments = InitComments
  /\ aux = InitAux
  /\ wrote = [r \in Runs |-> {}]
  /\ run = [r \in Runs |->
              IF r = 1 THEN [IdleRun EXCEPT !.pc = "ar_start",
                                            !.event = ClosedEvent(3, TRUE)]
              ELSE IdleRun]

\* The invocation released the label lock: the host has a labeled event to
\* send.
ReleasedLock(r) ==
  run[r].pc = "done" /\ run[r].action = "rebase" /\ run[r].label

FreeSlot(r) ==
  run[r].pc = "idle" \/ (run[r].pc = "done" /\ ~ReleasedLock(r))

\* The required checks (or the review) of the up-to-date head succeed: the
\* mergeable state turns from blocked to clean and the host sends the status
\* event of the head commit, or the review event of the pull request.
ChecksTurnGreen(r) ==
  /\ FreeSlot(r)
  /\ ~pulls[1].closed
  /\ ~Behind(1)
  /\ pulls[1].checks = "blocked"
  /\ pulls' = [pulls EXCEPT ![1].checks = "clean"]
  /\ \E e \in {StatusEvent("status", refs[FeatureRef(1)]), ReviewEvent(1)} :
       run' = [run EXCEPT ![r] =
                 [IdleRun EXCEPT !.pc = "ar_start", !.event = e]]
  /\ UNCHANGED <<refs, comments, aux, wrote>>

\* The pull_request event the host sends for the label withLabelLock put
\* back; its payload carries the mergeability the host knows at that time.
LabeledWebhook(r) ==
  /\ ReleasedLock(r)
  /\ run' = [run EXCEPT ![r] =
       [IdleRun EXCEPT
          !.pc = "ar_start",
          !.event = PullRequestEvent("labeled", run[r].number, TRUE,
                                     Mergeable(run[r].number))]]
  /\ UNCHANGED <<refs, pulls, comments, aux, wrote>>

LiveStep(r) ==
  \/ Autorebase(r)
  \/ ArGetInfo(r)
  \/ ApNeedAutosquashing(r)
  \/ FoSearch(r)
  \/ FoGetInfo(r)
  \/ LkRemoveLabel(r)
  \/ Engine(r)
  \/ LkAddLabels(r)
  \/ MgMerge(r)
  \/ MgDeleteRef(r)

NextLive ==
  \/ \E r \in Runs : LiveStep(r) /\ Track(r)
  \/ \E r \in Runs : ChecksTurnGreen(r)
  \/ \E r \in Runs : LabeledWebhook(r)
  \/ \E n \in PullNumbers : HostComputesMergeability(n) /\ UNCHANGED wrote

\* Every host call returns, the host computes mergeability and sends its
\* events.
FairLive ==
  /\ \A r \in Runs : WF_vars(LiveStep(r) /\ Track(r))
  /\ \A r \in Runs : WF_vars(ChecksTurnGreen(r))
  /\ \A r \in Runs : WF_vars(LabeledWebhook(r))
  /\ \A n \in PullNumbers :
       WF_vars(HostComputesMergeability(n) /\ UNCHANGED wrote)

SpecLive == InitLive /\ [][NextLive]_vars /\ FairLive

\* ------------------------------------------- a status on a blocked head
\* Pull request 1 (B on top of master's A-D) is open, labeled and up to
\* date, its checks failed or not; pull request 2 is open on master, behind
\* or up to date, labeled or not.  The event is a status or a check_run of
\* pull request 1's head commit.  Meanwhile other pull requests get merged:
\* master moves forward.
InitBlocked ==
  \E head2 \in {Linear(<<"A", "C">>), Linear(<<"A", "D", "C">>)},
     labeled2, computed1 \in BOOLEAN, checks1 \in {"clean", "blocked"} :
    /\ refs = [InitRefs EXCEPT ![FeatureRef(1)] = Linear(<<"A", "D", "B">>),
                               ![FeatureRef(2)] = head2]
    /\ pulls = [InitPulls EXCEPT
         ![1].labeled = TRUE,
         ![1].checks = checks1,
         ![1].computedFor =
            IF computed1
              THEN <<Linear(<<"A", "D">>), Linear(<<"A", "D", "B">>)>>
              ELSE <<NoSha, NoSha>>,
         ![2].labeled = labeled2,
         ![2].computedFor = <<Linear(<<"A", "D">>), head2>>,
         ![3].closed = TRUE,
         ![3].merged = TRUE,
         ![3].computedFor = <<Linear(<<"A", "D">>), NoSha>>]
    /\ comments = InitComments
    /\ aux = InitAux
    /\ wrote = [r \in Runs |-> {}]
    /\ \E name \in {"status", "check_run"} :
         run = [r \in Runs |->
                  IF r = 1
                    THEN [IdleRun EXCEPT
                            !.pc = "ar_start",
                            !.event = StatusEvent(name,
                                         Linear(<<"A", "D", "B">>))]
                    ELSE IdleRun]

BlockedStep(r) ==
  \/ Autorebase(r)
  \/ FoSearch(r)
  \/ FoGetInfo(r)
  \/ MgMerge(r)
  \/ MgDeleteRef(r)
  \/ LkRemoveLabel(r)
  \/ Engine(r)
  \/ LkAddLabels(r)

NextBlocked ==
  \/ \E r \in Runs : BlockedStep(r) /\ Track(r)
  \/ \E n \in PullNumbers : HostComputesMergeability(n) /\ UNCHANGED wrote
  \/ Push(MasterRef) /\ UNCHANGED wrote

SpecBlocked == InitBlocked /\ [][NextBlocked]_vars

\* ------------------------------- rebasePullRequest and a stale base id
\* rebasePullRequest on pull request 1 (B, or B then C, on top of A) while
\* master is A-D: the pull request gives A as its base commit id (recorded
\* before D was merged) or A-D.  Master moves on meanwhile, and the host
\* refreshes what it recorded when it computes mergeability again.
InitStaleBase ==
  /\ wrote = [r \in Runs |-> {}]
  /\ comments = InitComments
  /\ aux = InitAux
  /\ \E msgs \in {<<"B">>, <<"B", "C">>},
        recorded \in {Linear(<<"A">>), Linear(<<"A", "D">>)} :
       /\ refs = [InitRefs EXCEPT ![FeatureRef(1)] = Linear(<<"A">> \o msgs)]
       /\ pulls = [InitPulls EXCEPT
            ![1].computedFor = <<recorded, Linear(<<"A">> \o msgs)>>]
  /\ run = [r \in Runs |->
              IF r = 1 THEN [IdleRun EXCEPT !.pc = "rb_getPull", !.number = 1]
              ELSE IdleRun]

NextStaleBase ==
  \/ \E r \in Runs : RebaseStep(r) /\ Track(r)
  \/ Push(MasterRef) /\ UNCHANGED wrote
  \/ HostComputesMergeability(1) /\ UNCHANGED wrote

SpecStaleBase == InitStaleBase /\ [][NextStaleBase]_vars

\* ----------------------------------- a label added while the lock is held
\* Someone else (a user, another integration) adds the label to pull request
\* n while an invocation holds its label lock.
UserAddsLabel(n) ==
  /\ aux.external < MaxExternal
  /\ LockHolders(n) # {}
  /\ ~pulls[n].labeled
  /\ pulls' = [pulls EXCEPT ![n].labeled = TRUE]
  /\ aux' = [aux EXCEPT !.external = aux.external + 1]
  /\ UNCHANGED <<refs, comments, run>>

\* Every invocation handles a labeled event of pull request 1 (labeled, open,
\* behind, with or without a conflict).
InitUserLabel ==
  /\ \E head1 \in {Linear(<<"A", "B">>), Linear(<<"A", "K">>)} :
       Repository(head1, TRUE, "clean", TRUE)
  /\ run = [r \in Runs |->
              [IdleRun EXCEPT
                 !.pc = "ar_start",
                 !.event = PullRequestEvent("labeled", 1, TRUE, TRUE)]]

UserLabelStep(r) ==
  \/ Autorebase(r)
  \/ ArGetInfo(r)
  \/ ApNeedAutosquashing(r)
  \/ LkRemoveLabel(r)
  \/ Engine(r)
  \/ LkAddLabels(r)
  \/ RfGetPull(r)
  \/ RfCreateComment(r)
  \/ MgMerge(r)
  \/ MgDeleteRef(r)

NextUserLabel ==
  \/ \E r \in Runs : UserLabelStep(r) /\ Track(r)
  \/ UserAddsLabel(1) /\ UNCHANGED wrote
  \/ \E n \in PullNumbers : HostComputesMergeability(n) /\ UNCHANGED wrote

SpecUserLabel == InitUserLabel /\ [][NextUserLabel]_vars

\* --------------------------------- events after a failed locked rebase
\* A label-locked rebase of pull request n has failed: rebasePullRequest
\* raised inside withLabelLock, and rebase reports it or has reported it.
FailedLockedRebase(n) ==
  \E f \in Runs :
    /\ run[f].label /\ run[f].rbCaller = "rebase" /\ run[f].number = n
    /\ \/ run[f].pc \in {"rf_getPull", "rf_createComment"}
       \/ run[f].pc = "done" /\ run[f].thrown = "rebase failed"

\* The events delivered in that repository, with their force-rebase option:
\* every kind of pull_request, pull_request_review, status and check_run
\* event that can lead to a rebase or a merge of pull request 1.
LaterEvents ==
  {<<PullRequestEvent("labeled", 1, TRUE, TRUE), f>> : f \in BOOLEAN}
  \cup {<<PullRequestEvent("synchronize", 1, FALSE, TRUE), FALSE>>,
        <<ClosedEvent(3, TRUE), FALSE>>,
        <<ReviewEvent(1), FALSE>>,
        <<StatusEvent("status", refs[FeatureRef(1)]), FALSE>>,
        <<StatusEvent("check_run", refs[FeatureRef(1)]), FALSE>>}

\* The application is invoked for a new event once the first invocation is
\* out of rebasePullRequest (the invocations being interchangeable, the next
\* free one takes it).
Deliver(r) ==
  /\ run[r].pc = "idle"
  /\ \A q \in Runs : q < r => run[q].pc # "idle"
  /\ run[1].pc \in {"rf_getPull", "rf_createComment", "done"}
  /\ \E ev \in LaterEvents :
       run' = [run EXCEPT ![r].pc = "ar_start", ![r].event = ev[1],
                          ![r].forceRebase = ev[2]]
  /\ aux' = [aux EXCEPT
       !.later[r] = FailedLockedRebase(1) /\ ~pulls[1].labeled]
  /\ UNCHANGED <<refs, pulls, comments, wrote>>

\* Some actor (a user, another integration) adds the label to pull request n.
ActorAddsLabel(n) ==
  /\ aux.external < MaxExternal
  /\ ~pulls[n].labeled
  /\ pulls' = [pulls EXCEPT ![n].labeled = TRUE]
  /\ aux' = [aux EXCEPT !.external = aux.external + 1,
                        !.later = [r \in Runs |-> FALSE]]
  /\ UNCHANGED <<refs, comments, run>>

\* Pull request 1 is labeled, open and behind, with or without a conflict,
\* and the only open pull request; the first invocation handles its labeling,
\* forced or not (forced, it rebases the conflicting pull request too).
InitAfterFailure ==
  /\ \E head1 \in {Linear(<<"A", "B">>), Linear(<<"A", "K">>)} :
       /\ refs = [InitRefs EXCEPT ![FeatureRef(1)] = head1]
       /\ pulls = [InitPulls EXCEPT
            ![1].labeled = TRUE,
            ![1].computedFor = <<Linear(<<"A", "D">>), head1>>,
            ![2].closed = TRUE,
            ![2].computedFor = <<Linear(<<"A", "D">>), NoSha>>,
            ![3].closed = TRUE,
            ![3].merged = TRUE,
            ![3].computedFor = <<Linear(<<"A", "D">>), NoSha>>]
  /\ comments = InitComments
  /\ aux = InitAux
  /\ wrote = [r \in Runs |-> {}]
  /\ \E forceRebase \in BOOLEAN :
       run = [r \in Runs |->
                IF r = 1
                  THEN [IdleRun EXCEPT
                          !.pc = "ar_start",
                          !.event = PullRequestEvent("labeled", 1, TRUE, TRUE),
                          !.forceRebase = forceRebase]
                  ELSE IdleRun]

AfterFailureStep(r) ==
  \/ Autorebase(r)
  \/ ArGetInfo(r)
  \/ ApNeedAutosquashing(r)
  \/ FoSearch(r)
  \/ FoGetInfo(r)
  \/ LkRemoveLabel(r)
  \/ Engine(r)
  \/ LkAddLabels(r)
  \/ RfGetPull(r)
  \/ RfCreateComment(r)
  \/ MgMerge(r)
  \/ MgDeleteRef(r)

NextAfterFailure ==
  \/ \E r \in Runs : AfterFailureStep(r) /\ Track(r)
  \/ \E r \in Runs : Deliver(r)
  \/ ActorAddsLabel(1) /\ UNCHANGED wrote
  \/ \E n \in PullNumbers : HostComputesMergeability(n) /\ UNCHANGED wrote

SpecAfterFailure == InitAfterFailure /\ [][NextAfterFailure]_vars

\* ============================================================ properties
Raised(r) == run[r].pc = "done" /\ run[r].error # "none"

\* C6: when the host reports a merge conflict for a commit of the list,
\* cherryPickCommits raises without returning a commit id, the temporary
\* branch is gone, and the target points to the commit it pointed to before
\* the call (or to what another actor set it to meanwhile).
C6_ConflictLeavesTargetUntouched ==
  \A r \in Runs :
    (run[r].pc = "done" /\ run[r].error = "conflict") =>
      /\ run[r].returned = NoSha
      /\ refs[CherryPickTemporaryRef(r)] = NoSha
      /\ aux.external = 0 => refs[run[r].head] = run[r].headInitialSha
      /\ aux.external > 0 =>
            refs[run[r].head] \in {run[r].headInitialSha, aux.lastExternal}

\* A conflict on the second commit of the list, after the first one was
\* picked on the temporary branch, with no other actor involved.
C6_Witness ==
  \E r \in Runs :
    /\ run[r].pc = "done" /\ run[r].error = "conflict"
    /\ run[r].index = 2 /\ aux.external = 0
    /\ run[r].sha # run[r].headInitialSha

\* What the final update found on the target differs from what was read.
TargetMoved(r) ==
  /\ run[r].pc = "done"
  /\ aux.atUpdate[r] # NoSha
  /\ aux.atUpdate[r] # run[r].headInitialSha

HeadFoundChanged(r) ==
  /\ aux.atCheck[r] # NoSha
  /\ aux.atCheck[r] # run[r].prHeadInitialSha

\* C8: when checkSameHead finds the head branch on another tip than the one
\* recorded at the start, the call raises "head branch changed", issues no
\* update of the head branch, and the head branch keeps the tip that was
\* pushed (later pushes only adding to it).
C8_HeadChangedAbortsWithoutUpdate ==
  \A r \in Runs :
    HeadFoundChanged(r) =>
      /\ run[r].error = "headChanged"
      /\ run[r].pc \in {"rb_deleteTemp", "done"}
      /\ aux.overwritten[r] = NoSha
      /\ run[r].returned = NoSha
      /\ IsPrefix(aux.atCheck[r], refs[run[r].headRef])

\* The call ended on "head branch changed" after a two-commit rebase was
\* built on the temporary branch, the pushed commit still on the head.
C8_Witness ==
  \E r \in Runs :
    /\ HeadFoundChanged(r) /\ run[r].pc = "done"
    /\ run[r].error = "headChanged"
    /\ Len(run[r].prCommits) = 2
    /\ refs[run[r].headRef] = aux.atCheck[r]
    /\ "X" \in TreeOf(refs[run[r].headRef])

\* The forced update replaced a tip holding a change the new tip lacks.
DroppedByUpdate(r) ==
  /\ aux.overwritten[r] # NoSha
  /\ ~(TreeOf(aux.overwritten[r]) \subseteq TreeOf(run[r].newSha))

\* C9: the forced update of the head branch replaces a tip other than the
\* one the call rebased, dropping a pushed commit, only when the push landed
\* between checkSameHead and the update; a push landing anywhere else in the
\* call is either part of the rebased history or makes the call abort.
C9_PushDroppedOnlyBetweenCheckAndUpdate ==
  \A r \in Runs :
    /\ DroppedByUpdate(r) => aux.inGap[r]
    /\ (aux.overwritten[r] # NoSha
         /\ aux.overwritten[r] # run[r].prHeadInitialSha) => aux.inGap[r]
    /\ (aux.overwritten[r] # NoSha /\ ~aux.inGap[r]) =>
          \A i \in 1..Len(aux.overwritten[r]) :
            aux.overwritten[r][i].msg \in TreeOf(run[r].newSha)

\* A push landed between the check and the update and its commit was dropped;
\* and a push landed earlier in a call that went on to update the head.
C9_Witness ==
  \E r \in Runs :
    /\ DroppedByUpdate(r) /\ aux.inGap[r]
    /\ run[r].pc = "done" /\ run[r].error = "none"
    /\ Len(run[r].prCommits) >= 1

\* The rebased tip holds the base's history read by the call followed by one
\* commit per commit of the pull request, in order.
CompleteRebase(r) ==
  Messages(run[r].newSha) =
    Messages(run[r].baseInitialSha)
      \o [i \in 1..Len(run[r].prCommits) |-> MessageOf(run[r].prCommits[i])]

\* C10: a call that raises has issued no update of the head branch, and the
\* only update a call issues sets the head branch to the complete rebased
\* history, never to a partially rebased one.
C10_RaisesLeaveHeadUntouched ==
  \A r \in Runs :
    /\ run[r].error # "none" => aux.overwritten[r] = NoSha
    /\ Raised(r) =>
          /\ run[r].returned = NoSha
          /\ aux.external = 0 =>
                refs[run[r].headRef] = run[r].prHeadInitialSha
    /\ aux.overwritten[r] # NoSha =>
          /\ CompleteRebase(r)
          /\ run[r].error = "none"
          /\ aux.external = 0 => refs[run[r].headRef] = run[r].newSha

\* A conflict on the second commit of the pull request: the call raised with
\* the first commit already picked on a temporary branch.
C10_Witness ==
  \E r \in Runs :
    /\ Raised(r) /\ run[r].error = "conflict"
    /\ run[r].index = 2 /\ Len(run[r].prCommits) = 2
    /\ aux.external = 0
    /\ refs[run[r].headRef] = run[r].prHeadInitialSha

\* ------------------------------------------------------------ label lock
\* The invocation is over: autorebase returned an action or threw.
Ended(r) == run[r].pc = "done" /\ run[r].rbCaller = "rebase"

\* The Rebase Engine raised inside rebase's doRebase.
EngineRaised(r) == run[r].rbCaller = "rebase" /\ run[r].error # "none"

C4_LabelAbsentAfterFailedLockedRebase ==
  \A r \in Runs :
    aux.acquired[r] /\ EngineRaised(r) => ~pulls[run[r].number].labeled

C4_Witness ==
  \E r \in Runs :
    /\ Ended(r) /\ aux.acquired[r] /\ EngineRaised(r)
    /\ run[r].thrown = "rebase failed"
    /\ ~pulls[run[r].number].labeled

\* The failure comment of a run: the error's message and the commands of a
\* manual rebase of the pull request's head branch on its base branch.
FailureComment(r) ==
  [body |-> "The rebase failed:", message |-> run[r].error,
   worktree |-> pulls[run[r].number].head,
   onto |-> pulls[run[r].number].base]

Commented(r) ==
  \E i \in DOMAIN comments[run[r].number] :
    comments[run[r].number][i] = FailureComment(r)

\* C5: when the Rebase Engine raises during a rebase, with the label lock or
\* one-time, the run does not end before it has posted the failure comment,
\* it ends by raising "rebase failed" and it returns no action.
C5_EngineErrorCommentedThenRaised ==
  \A r \in Runs :
    EngineRaised(r) =>
      /\ run[r].pc \in EnginePcs \cup {"rf_getPull", "rf_createComment", "done"}
      /\ run[r].action = "none"
      /\ run[r].pc = "done" => run[r].thrown = "rebase failed" /\ Commented(r)
      /\ run[r].thrown # "none" => Commented(r)

C5_Witness ==
  \E r \in Runs :
    /\ Ended(r) /\ EngineRaised(r) /\ ~run[r].label
    /\ run[r].thrown = "rebase failed"
    /\ Commented(r)

\* ------------------------------------------------- concurrent rebases
\* The invocation is executing the Rebase Engine on pull request n.
InEngine(r, n) ==
  run[r].rbCaller = "rebase" /\ run[r].pc \in EnginePcs /\ run[r].number = n

\* C1 as stated: whatever the events of the concurrent runs (pull_request,
\* pull_request_review, status, check_run, issue_comment), at most one run at
\* a time executes the Rebase Engine on a given pull request.
C1_OneRunInEnginePerPullRequest ==
  \A n \in PullNumbers : \A r1, r2 \in Runs :
    InEngine(r1, n) /\ InEngine(r2, n) => r1 = r2

\* C1, corrected: at most one of the runs that rebase through the label lock
\* executes the Rebase Engine on a given pull request at a time, and the
\* pull request does not carry the label meanwhile; the one-time rebase of
\* an issue_comment command takes no lock and is not excluded.
C1_OneLockedRunInEnginePerPullRequest ==
  \A n \in PullNumbers :
    /\ \A r1, r2 \in LockHolders(n) : r1 = r2
    /\ LockHolders(n) # {} => ~pulls[n].labeled

C1_Witness ==
  \E r1, r2 \in Runs :
    /\ r1 # r2
    /\ InEngine(r1, 1) /\ run[r1].label
    /\ run[r2].action = "abort" /\ run[r2].number = 1
    /\ aux.holders[r2] = {r1}

\* Two runs handling the labeling of pull request 1 (labeled, open, behind,
\* free of conflicts), every other run not having started.
LabeledEventRuns(r1, r2) ==
  /\ r1 # r2
  /\ \A r \in {r1, r2} : run[r].event = PullRequestEvent("labeled", 1, TRUE, TRUE)
  /\ \A r \in Runs \ {r1, r2} : run[r].pc = "ar_start"
  /\ "K" \notin TreeOf(refs[FeatureRef(1)])

\* The run went as far as withLabelLock's removal of the label.
TriedLock(r) == aux.acquired[r] \/ run[r].action = "abort"

CpTemporaryPcs ==
  {"cp_merge", "cp_createCommit", "cp_updateTemp", "cp_updateHead",
   "cp_deleteTemp"}

\* C11: when rebasePullRequest or cherryPickCommits has returned or raised,
\* the temporary references the call created are deleted; the one of
\* cherryPickCommits is already deleted when it hands its result back to
\* rebasePullRequest.
C11_TemporaryReferencesDeleted ==
  \A r \in Runs :
    /\ run[r].pc = "done" =>
         /\ refs[RebaseTemporaryRef(r)] = NoSha
         /\ refs[CherryPickTemporaryRef(r)] = NoSha
    /\ run[r].pc \in {"rb_checkSameHead", "rb_updateHead", "rb_deleteTemp"} =>
         refs[CherryPickTemporaryRef(r)] = NoSha

\* rebasePullRequest raised after both temporary references had been created
\* and the head branch had changed.
C11_Witness ==
  \E r \in Runs :
    /\ run[r].pc = "done" /\ run[r].error = "headChanged"
    /\ run[r].cpCaller = "rebase" /\ run[r].sha # NoSha
    /\ refs[RebaseTemporaryRef(r)] = NoSha
    /\ refs[CherryPickTemporaryRef(r)] = NoSha

\* ------------------------------------------------------------------ abort
\* The invocation never entered rebasePullRequest.
EngineNotRun(r) ==
  /\ ~aux.acquired[r]
  /\ run[r].prHeadInitialSha = NoSha /\ run[r].baseInitialSha = NoSha
  /\ run[r].headInitialSha = NoSha /\ run[r].sha = NoSha
  /\ run[r].newSha = NoSha /\ run[r].returned = NoSha

\* C12: a run whose removal of the label is refused returns abort, without
\* having run the Rebase Engine and without having changed anything on the
\* host: no reference, no label, no comment, no merge.
C12_AbortChangesNothing ==
  \A r \in Runs :
    aux.holders[r] # {} \/ run[r].action = "abort" =>
      /\ run[r].pc = "done" /\ run[r].action = "abort"
      /\ run[r].thrown = "none" /\ run[r].error = "none"
      /\ EngineNotRun(r)
      /\ wrote[r] = {}

\* A run refused while another one, inside the Rebase Engine, has already
\* created its temporary reference.
C12_Witness ==
  \E r, h \in Runs :
    /\ run[r].action = "abort" /\ aux.holders[r] = {h}
    /\ wrote[r] = {} /\ "refs" \in wrote[h]
    /\ ~pulls[run[r].number].labeled

\* ------------------------------------------------------------ redelivery
\* r handles the second delivery of the labeling of pull request 1, received
\* while the run of the first delivery held the label lock.
Redelivered(r) ==
  /\ r # 1
  /\ run[r].event = PullRequestEvent("labeled", 1, TRUE, TRUE)
  /\ run[r].pc # "idle"

MergeCalled(r) ==
  \/ run[r].pc = "mg_deleteRef"
  \/ run[r].action = "merge"
  \/ run[r].thrown \in {"merge refused", "reference not found"}

\* The invocation is over, with the action it returned ("none": it threw).
Over(r) == run[r].pc = "done"

\* C14: on a pull_request_review event the run sends the merge request only
\* for a pull request it read as labeled, open, rebaseable and clean; in
\* every other case it returns nop.
C14_ReviewMergesOnlyWhenClean ==
  \A r \in Runs :
    run[r].event.name = "pull_request_review" =>
      /\ MergeCalled(r) =>
           /\ run[r].pullRequest.labeledAndOpenedAndRebaseable
           /\ run[r].pullRequest.mergeableState = "clean"
      /\ Over(r) /\ ~MergeCalled(r) => run[r].action = "nop"

\* The step of r in which autorebasePullRequest decides.
PolicyDecides(r) ==
  run[r].pc = "ap_needAutosquashing" /\ run'[r].pc # "ap_needAutosquashing"

\* The decision taken: rebase through withLabelLock, merge, or nop.
PolicyRebases(r) == run'[r].pc = "lk_removeLabel" /\ run'[r].label
PolicyMerges(r) == run'[r].pc = "mg_merge"
PolicyNops(r) == run'[r].pc = "done" /\ run'[r].action = "nop"

PolicyPullRequest(r) == run[r].pullRequest.pullRequestNumber

\* C15 as stated: the per-pull-request policy rebases through the label lock if and only if the pull request needs autosquashing or its state is behind; otherwise it merges if and only if the state is clean; otherwise it returns nop and has written nothing.
C15_PolicyRebasesIffAutosquashOrBehind ==
  [][\A r \in Runs :
       PolicyDecides(r) =>
         LET state == run[r].pullRequest.mergeableState
             stale == needAutosquashing(PolicyPullRequest(r)) \/ state = "behind"
         IN  /\ PolicyRebases(r) <=> stale
             /\ PolicyMerges(r) <=> ~stale /\ state = "clean"
             /\ PolicyNops(r) <=> ~stale /\ state # "clean"
             /\ PolicyNops(r) => wrote'[r] = {}]_vars

\* C15: the per-pull-request policy rebases through the label lock if and only if the force-rebase override is set, the pull request needs autosquashing or its state is behind; otherwise it merges if and only if the state is clean; otherwise it returns nop and has written nothing.
C15_PolicyRebasesIffForcedAutosquashOrBehind ==
  [][\A r \in Runs :
       PolicyDecides(r) =>
         LET state == run[r].pullRequest.mergeableState
             stale == \/ run[r].forceRebase
                      \/ needAutosquashing(PolicyPullRequest(r))
                      \/ state = "behind"
         IN  /\ PolicyRebases(r) <=> stale
             /\ PolicyMerges(r) <=> ~stale /\ state = "clean"
             /\ PolicyNops(r) <=> ~stale /\ state # "clean"
             /\ PolicyNops(r) => wrote'[r] = {}]_vars

\* The policy sent a clean, up-to-date pull request with a fixup commit to
\* the rebase, without the override.
C15_Witness ==
  \E r \in Runs :
    /\ run[r].pc = "lk_removeLabel"
    /\ run[r].event.name = "pull_request"
    /\ ~run[r].forceRebase
    /\ run[r].pullRequest.mergeableState = "clean"
    /\ needAutosquashing(run[r].number)

\* The first steps of r: the dispatch on the event, then what follows the
\* fresh read of the event's pull request.
Dispatches(r) == run[r].pc = "ar_start" /\ run'[r].pc # "ar_start"
ReadsPullRequest(r) == run[r].pc = "ar_getInfo" /\ run'[r].pc # "ar_getInfo"
AppliesPolicy(r) == run'[r].pc = "ap_needAutosquashing"
ReturnsNop(r) == run'[r].pc = "done" /\ run'[r].action = "nop"

\* A pull_request event opened, synchronize, or labeled with the label.
SamePullRequestAction(r) ==
  LET e == run[r].event
  IN  /\ e.name = "pull_request"
      /\ \/ e.action \in {"opened", "synchronize"}
         \/ e.action = "labeled" /\ e.labelIsLabel

\* What a fresh read of the event's pull request gives.
FreshSnapshot(r) == getPullRequestInfo(run[r].event.number)

\* C16 as stated: on a pull_request event opened, synchronize or labeled with the label, the run applies the policy whenever a fresh read of the pull request gives labeled, open and rebaseable, whatever the payload's mergeability fields, or the override is set; otherwise it returns nop.
C16_PolicyWhateverThePayload ==
  [][\A r \in Runs :
       SamePullRequestAction(r) =>
         LET apply == \/ run[r].forceRebase
                      \/ FreshSnapshot(r).labeledAndOpenedAndRebaseable
         IN  /\ Dispatches(r) /\ isMergeableStateKnown(run[r].event.number)
                  /\ apply => ~ReturnsNop(r)
             /\ ReadsPullRequest(r) =>
                  IF apply THEN AppliesPolicy(r) ELSE ReturnsNop(r)]_vars

\* C16: on a pull_request event opened, synchronize or labeled with the label, whose payload has the pull request open and either mergeable or the override set, the run reads the pull request afresh and applies the policy to that snapshot if it is labeled, open and rebaseable or the override is set; in every other case it returns nop, having written nothing.
C16_PolicyWhenPayloadMergeableOrForced ==
  [][\A r \in Runs :
       SamePullRequestAction(r) =>
         LET e == run[r].event
             payload == (e.mergeable \/ run[r].forceRebase) /\ ~e.closed
             apply == \/ run[r].forceRebase
                      \/ FreshSnapshot(r).labeledAndOpenedAndRebaseable
         IN  /\ Dispatches(r) =>
                  IF payload THEN run'[r].pc = "ar_getInfo"
                  ELSE ReturnsNop(r) /\ wrote'[r] = {}
             /\ ReadsPullRequest(r) =>
                  IF apply
                    THEN AppliesPolicy(r)
                         /\ run'[r].pullRequest = FreshSnapshot(r)
                    ELSE ReturnsNop(r) /\ wrote'[r] = {}]_vars

\* The policy is applied, without the override, to a snapshot that differs
\* from nothing the payload said but its mergeable flag.
C16_Witness ==
  \E r \in Runs :
    /\ run[r].pc = "ap_needAutosquashing"
    /\ run[r].event.action = "synchronize"
    /\ ~run[r].forceRebase
    /\ run[r].pullRequest.labeledAndOpenedAndRebaseable
    /\ run[r].pullRequest.mergeableState = "behind"

\* The step of r in which findOldestPullRequest returns to its caller, for
\* the search by commit id and for the search of a behind pull request.
SearchReturns(r, predicate) ==
  /\ run[r].predicate = predicate
  /\ run[r].pc \in {"fo_search", "fo_getInfo"}
  /\ run'[r] # run[r]
  /\ ~(run'[r].pc = "fo_getInfo" /\ run'[r].predicate = predicate)

\* The pull request the search is reading, and whether it is the one found.
Candidate(r) == getPullRequestInfo(Head(run[r].numbers))

FoundMatchingSha(r) ==
  /\ run[r].pc = "fo_getInfo"
  /\ Candidate(r).labeledAndOpenedAndRebaseable
  /\ Candidate(r).sha = run[r].event.sha

FoundBehind(r) ==
  run[r].pc = "fo_getInfo" /\ Candidate(r).mergeableState = "behind"

StatusOrCheckRun(r) == run[r].event.name \in {"status", "check_run"}

\* C17: on a status or check_run event, when the search by commit id returns a labeled, open, rebaseable pull request whose head is that commit, the run calls merge on it if its state is clean and searches its base branch for a behind pull request if it is blocked, calling rebase with the label on the one found and returning nop if there is none; for every other state, and when no pull request is found, it returns nop.
C17_StatusMergesCleanOrRebasesBehindSibling ==
  [][\A r \in Runs :
       StatusOrCheckRun(r) =>
         /\ SearchReturns(r, "sha") =>
              IF FoundMatchingSha(r) /\ Candidate(r).mergeableState = "clean"
                THEN /\ run'[r].pc = "mg_merge"
                     /\ run'[r].number = Candidate(r).pullRequestNumber
              ELSE IF FoundMatchingSha(r)
                      /\ Candidate(r).mergeableState = "blocked"
                THEN /\ run'[r].pc = "fo_search"
                     /\ run'[r].predicate = "behind"
                     /\ run'[r].pullRequest.base = Candidate(r).base
              ELSE ReturnsNop(r) /\ wrote'[r] = {}
         /\ SearchReturns(r, "behind") =>
              IF FoundBehind(r)
                THEN /\ run'[r].pc = "lk_removeLabel" /\ run'[r].label
                     /\ run'[r].number = Candidate(r).pullRequestNumber
                     /\ Candidate(r).base = run[r].pullRequest.base
                ELSE ReturnsNop(r) /\ wrote'[r] = {}]_vars

\* A status of the blocked pull request 1 ended in the rebase of pull
\* request 2.
C17_Witness ==
  \E r \in Runs :
    /\ run[r].event.name = "status"
    /\ run[r].pullRequest.mergeableState = "blocked"
    /\ run[r].pc = "done" /\ run[r].action = "rebase"
    /\ run[r].number = 2

MergedEvent(r) ==
  LET e == run[r].event
  IN  e.name = "pull_request" /\ e.action = "closed" /\ e.merged

\* The open pull requests carrying the label whose base branch is base.
LabeledOpenOn(base) ==
  {n \in PullNumbers :
     ~pulls[n].closed /\ pulls[n].labeled /\ pulls[n].base = base}

\* C18: on a pull_request event closed with merged true, the run searches the open labeled pull requests on the merged pull request's base branch, reads them oldest first, calls rebase with the label on the first one whose state it reads as behind, and returns nop if there is none.
C18_MergedRebasesOldestBehindSibling ==
  [][\A r \in Runs :
       MergedEvent(r) =>
         /\ Dispatches(r) => run'[r].pc = "ar_getInfo"
         /\ ReadsPullRequest(r) =>
              /\ run'[r].pc = "fo_search"
              /\ run'[r].predicate = "behind"
              /\ run'[r].pullRequest.base = pulls[run[r].event.number].base
         /\ run[r].pc = "fo_search" /\ run'[r].pc = "fo_getInfo" =>
              LET numbers == run'[r].numbers
              IN  /\ {numbers[i] : i \in DOMAIN numbers}
                       = LabeledOpenOn(run[r].pullRequest.base)
                  /\ \A i, j \in DOMAIN numbers :
                       i < j => numbers[i] < numbers[j]
         /\ run[r].pc = "fo_getInfo" /\ run'[r].pc = "fo_getInfo"
               /\ run'[r] # run[r] =>
              /\ ~FoundBehind(r)
              /\ run'[r].numbers = Tail(run[r].numbers)
         /\ SearchReturns(r, "behind") =>
              IF FoundBehind(r)
                THEN /\ run'[r].pc = "lk_removeLabel" /\ run'[r].label
                     /\ run'[r].number = Candidate(r).pullRequestNumber
                ELSE /\ ReturnsNop(r) /\ wrote'[r] = {}
                     /\ run[r].pc = "fo_getInfo" =>
                          Tail(run[r].numbers) = <<>>]_vars

\* The merge of pull request 3 ended in the rebase of pull request 2, the
\* older pull request 1 being labeled and up to date.
C18_Witness ==
  \E r \in Runs :
    /\ MergedEvent(r)
    /\ run[r].pc = "done" /\ run[r].action = "rebase"
    /\ run[r].number = 2
    /\ pulls[1].labeled /\ ~pulls[1].closed

\* ------------------------------------------------- one-time rebase
\* An issue_comment event on a pull request whose body is the command.
RebaseCommand(r) ==
  LET e == run[r].event
  IN  e.name = "issue_comment" /\ e.command /\ e.isPullRequest

Authorized(r) == run[r].event.permission \in {"admin", "write"}

\* C19: on a rebase command from an authorized commenter the run executes the Rebase Engine on the commented pull request without the label lock, whether or not the pull request carries the label, never touches the labels, returns rebase when the engine succeeds and raises "rebase failed" when it does not.
C19_AuthorizedCommandRebasesWithoutLabel ==
  \A r \in Runs :
    RebaseCommand(r) /\ Authorized(r) =>
      /\ run[r].pc \in {"ar_start", "ot_getPermission", "rf_getPull",
                        "rf_createComment", "done"} \cup EnginePcs
      /\ run[r].pc \notin {"ar_start", "ot_getPermission"} =>
           /\ run[r].rbCaller = "rebase"
           /\ run[r].number = run[r].event.number
           /\ ~run[r].label
      /\ "labels" \notin wrote[r]
      /\ run[r].pc = "done" =>
           IF run[r].error = "none"
             THEN /\ run[r].action = "rebase" /\ run[r].thrown = "none"
                  /\ run[r].returned # NoSha
                  /\ IsAncestor(run[r].baseInitialSha, run[r].returned)
             ELSE run[r].action = "none" /\ run[r].thrown = "rebase failed"

\* An authorized command rebased the unlabeled pull request 1 onto master.
C19_Witness ==
  \E r \in Runs :
    /\ RebaseCommand(r) /\ Authorized(r)
    /\ ~pulls[run[r].number].labeled
    /\ run[r].pc = "done" /\ run[r].action = "rebase"
    /\ run[r].prHeadInitialSha = Linear(<<"A", "B">>)
    /\ refs[FeatureRef(run[r].number)] = run[r].returned
    /\ IsAncestor(refs[MasterRef], run[r].returned)

DenialBody ==
  "Rebase commands can only be submitted by collaborators with write permission on the repository."

\* C20: on a rebase command from a commenter who is not authorized the run posts one comment, the denial, on the pull request and nothing else, returns deny-one-time-rebase without raising, and writes no reference and no label.
C20_DeniedCommandCommentsOnce ==
  \A r \in Runs :
    RebaseCommand(r) /\ ~Authorized(r) =>
      LET posted == comments[run[r].event.number]
      IN  /\ run[r].pc \in {"ar_start", "ot_getPermission",
                            "ot_createComment", "done"}
          /\ run[r].thrown = "none"
          /\ run[r].pc # "done" => wrote[r] = {} /\ run[r].action = "none"
          /\ run[r].pc = "done" =>
               /\ run[r].action = "deny-one-time-rebase"
               /\ wrote[r] = {"comments"}
               /\ Len(posted) = Len(InitComments[run[r].event.number]) + 1
               /\ posted[Len(posted)].body = DenialBody
               /\ \A n \in PullNumbers \ {run[r].event.number} :
                    comments[n] = InitComments[n]

\* The command of a commenter with read permission was denied.
C20_Witness ==
  \E r \in Runs :
    /\ RebaseCommand(r) /\ run[r].event.permission = "read"
    /\ run[r].pc = "done" /\ run[r].action = "deny-one-time-rebase"
    /\ Len(comments[run[r].event.number]) = 1

\* ------------------------------------------------------------ frame
ReturnedNop(r) == run[r].pc = "done" /\ run[r].action = "nop"

\* The run of a status or check_run event ended after its search by commit
\* id, which found nothing to merge and no blocked pull request.
NothingMatchingSha(r) ==
  /\ StatusOrCheckRun(r)
  /\ run[r].pc = "done"
  /\ run[r].predicate = "sha"
  /\ run[r].pullRequest.pullRequestNumber = 0

\* C21: a run that returns nop has changed no label, no reference, no comment and merged nothing; a run for a status or check_run event whose search by commit id finds no labeled, open, rebaseable pull request head is such a run.
C21_NopWritesNothing ==
  \A r \in Runs :
    /\ ReturnedNop(r) => wrote[r] = {} /\ run[r].thrown = "none"
    /\ NothingMatchingSha(r) => ReturnedNop(r)

\* A check_run of a commit no pull request has as its head ended in nop.
C21_Witness ==
  \E r \in Runs :
    /\ run[r].event.name = "check_run"
    /\ NothingMatchingSha(r)
    /\ ReturnedNop(r)
    /\ wrote[r] = {}

\* The action a run is executing at pc: rebase (with or without the label
\* lock, its failure comment included), merge, or the denial of a one-time
\* rebase; "none" while the event is dispatched and after the return.
ActionAt(pc) ==
  IF pc \in EnginePcs \cup {"lk_removeLabel", "lk_addLabels", "rf_getPull",
                            "rf_createComment"} THEN "rebase"
  ELSE IF pc \in {"mg_merge", "mg_deleteRef"} THEN "merge"
  ELSE IF pc = "ot_createComment" THEN "deny-one-time-rebase"
  ELSE "none"

StepOf(r) == run'[r] # run[r]

\* The references the action of r on its pull request may write.
OwnRefs(r) ==
  LET n == run[r].number
  IN  {RebaseTemporaryRef(r), CherryPickTemporaryRef(r), pulls[n].head}
      \cup (IF ActionAt(run[r].pc) = "merge" THEN {pulls[n].base} ELSE {})

ActionTypes == {"abort", "deny-one-time-rebase", "merge", "rebase", "nop"}

\* C22: a run executes at most one action on at most one pull request: once it has started a rebase, a merge or a denial it stays in that action on that pull request until it ends, it writes only while in that action and only that pull request's label, comments, merged flag and references, and it ends either with one Action value or by raising.
C22_OneActionOnOnePullRequest ==
  /\ [](\A r \in Runs :
          run[r].pc = "done" =>
            /\ (run[r].action = "none") # (run[r].thrown = "none")
            /\ run[r].action \in ActionTypes \cup {"none"})
  /\ [][\A r \in Runs :
          StepOf(r) =>
            LET doing == ActionAt(run[r].pc)
                n == run[r].number
            IN  /\ doing # "none" =>
                     /\ run'[r].number = n
                     /\ ActionAt(run'[r].pc) = doing \/ run'[r].pc = "done"
                     /\ run'[r].pc = "done" /\ run'[r].action # "none" =>
                          run'[r].action =
                            IF doing = "rebase" /\ run[r].pc = "lk_removeLabel"
                                 /\ ~pulls[n].labeled
                              THEN "abort" ELSE doing
                /\ doing = "none" =>
                     /\ refs' = refs /\ comments' = comments
                     /\ \A m \in PullNumbers :
                          /\ pulls'[m].labeled = pulls[m].labeled
                          /\ pulls'[m].merged = pulls[m].merged
                          /\ pulls'[m].closed = pulls[m].closed
                /\ \A m \in PullNumbers \ {n} :
                     /\ pulls'[m].labeled = pulls[m].labeled
                     /\ pulls'[m].merged = pulls[m].merged
                     /\ pulls'[m].closed = pulls[m].closed
                     /\ comments'[m] = comments[m]
                /\ \A ref \in RefNames \ OwnRefs(r) : refs'[ref] = refs[ref]
                /\ doing # "merge" =>
                     \A m \in PullNumbers : pulls'[m].merged = pulls[m].merged
                /\ doing # "rebase" =>
                     \A m \in PullNumbers :
                       pulls'[m].labeled = pulls[m].labeled
                /\ run[r].pc = "done" => FALSE]_vars

\* A run rebased pull request 2 for a status of the blocked pull request 1:
\* two pull requests read, one acted upon.
C22_Witness ==
  \E r \in Runs :
    /\ run[r].pc = "done" /\ run[r].action = "rebase"
    /\ run[r].pullRequest.pullRequestNumber = 1
    /\ run[r].number = 2
    /\ wrote[r] = {"refs", "labels"}

\* ---------------------------------------------------------- resolver
\* The step in which the resolver returns to its caller.
ResolverReturns(r) ==
  run[r].pc = "rs_get" /\ run'[r].pc = "done" /\ run'[r].thrown = "none"

\* C23: the snapshot the resolver returns is the one of a response that is closed or has a mergeable state other than unknown, whatever the host answered before and however often the branches moved; an open pull request is never returned with the state unknown.
C23_ResolverReturnsKnownOrClosed ==
  [][\A r \in Runs :
       ResolverReturns(r) =>
         LET n == run[r].number
             snapshot == run'[r].pullRequest
         IN  /\ snapshot.pullRequestNumber = n
             /\ snapshot.mergeableState = MergeableStateOf(n)
             /\ snapshot.mergeableState # "unknown" \/ pulls[n].closed]_vars

\* The resolver returned a known state for the open pull request 1 after at
\* least one retry.
C23_Witness ==
  \E r \in Runs :
    /\ run[r].pc = "done"
    /\ aux.retried[r]
    /\ run[r].pullRequest.pullRequestNumber = 1
    /\ ~pulls[1].closed
    /\ run[r].pullRequest.mergeableState \in {"behind", "blocked", "dirty"}

\* ----------------------------------------------- findOldestPullRequest
\* The pull requests the search lists for the predicate of r: open, with the
\* label, and having the event's commit or the base branch.
Listed(r) ==
  {n \in PullNumbers :
     /\ ~pulls[n].closed /\ pulls[n].labeled
     /\ IF run[r].predicate = "sha"
          THEN \E i \in DOMAIN fetchCommits(n) :
                 fetchCommits(n)[i] = run[r].event.sha
          ELSE pulls[n].base = run[r].pullRequest.base}

\* The mergeable state of pull request n once the host has computed it.
ResolvedState(n) ==
  IF Conflicts(n) THEN "dirty"
  ELSE IF Behind(n) THEN "behind"
  ELSE pulls[n].checks

\* The predicate of r on the resolved info of pull request n.
Satisfying(r, n) ==
  IF run[r].predicate = "sha"
    THEN /\ pulls[n].labeled /\ ~pulls[n].closed /\ ~Conflicts(n)
         /\ refs[pulls[n].head] = run[r].event.sha
    ELSE ResolvedState(n) = "behind"

Found(r) ==
  IF run[r].predicate = "sha" THEN FoundMatchingSha(r) ELSE FoundBehind(r)

\* C24: with nothing else writing to the repository, findOldestPullRequest returns the lowest-numbered (earliest created) pull request among those the search lists whose resolved info satisfies the predicate, and returns none only when none of them satisfies it.
C24_FindReturnsOldestSatisfying ==
  [][\A r \in Runs :
       SearchReturns(r, run[r].predicate) =>
         LET satisfying == {n \in Listed(r) : Satisfying(r, n)}
         IN  IF satisfying = {} THEN ~Found(r)
             ELSE /\ Found(r)
                  /\ Candidate(r).pullRequestNumber \in satisfying
                  /\ \A n \in satisfying :
                       Candidate(r).pullRequestNumber <= n]_vars

\* The search for a behind pull request returned pull request 2, the older
\* pull request 1 being listed and up to date.
C24_Witness ==
  \E r \in Runs :
    /\ run[r].predicate = "behind"
    /\ run[r].pc = "lk_removeLabel"
    /\ run[r].number = 2
    /\ pulls[1].labeled /\ ~pulls[1].closed /\ ~Behind(1)

\* ----------------------------------------------------- rebased history
Succeeded(r) == run[r].pc = "done" /\ run[r].error = "none"

NoOtherWriter == aux.external = 0

\* history is onto followed by one commit per commit of commits, in their
\* order: each has the message of its original, one parent (the commit
\* before it) and the tree of its parent plus its original's change.
Replayed(history, onto, commits) ==
  /\ Len(history) = Len(onto) + Len(commits)
  /\ IsPrefix(onto, history)
  /\ \A i \in DOMAIN commits :
       LET new == history[Len(onto) + i]
           before == SubSeq(history, 1, Len(onto) + i - 1)
       IN  /\ new.msg = MessageOf(commits[i])
           /\ new.p2 = NoSha
           /\ new.tree = TreeOf(before) \cup {MessageOf(commits[i])}

\* The commits the pull request had when rebasePullRequest was called: those
\* of its head branch that the base branch did not have.
OriginalCommits(r) ==
  LET h == run[r].prHeadInitialSha
      k == CommonLength(h, run[r].baseInitialSha)
  IN  [i \in 1..(Len(h) - k) |-> SubSeq(h, 1, k + i)]

Advanced(history, onto, commits) ==
  /\ Len(history) = Len(onto) + Len(commits)
  /\ IsPrefix(onto, history)
  /\ \A i \in DOMAIN commits :
       /\ history[Len(onto) + i].msg = MessageOf(commits[i])
       /\ history[Len(onto) + i].p2 = NoSha

CherryPickCall(r) == run[r].cpCaller = "none" /\ run[r].pc # "idle"

\* C26: when nobody else writes to the target, cherryPickCommits fails only on a conflict, and when it succeeds for a list of N commits the target is its starting tip followed by exactly N new commits, in list order, each with one parent (the previous new commit, or the starting tip for the first one), the last one being the commit id returned.
C26_TargetAdvancedByOneCommitPerPick ==
  \A r \in Runs :
    /\ CherryPickCall(r) /\ Succeeded(r) /\ NoOtherWriter =>
         /\ Advanced(refs[run[r].head], run[r].headInitialSha,
                     run[r].commits)
         /\ run[r].returned = refs[run[r].head]
    /\ CherryPickCall(r) /\ run[r].pc = "done" /\ NoOtherWriter
         /\ run[r].error # "none" => run[r].error = "conflict"

\* B then C were picked onto A-D.
C26_Witness ==
  \E r \in Runs :
    /\ CherryPickCall(r) /\ Succeeded(r) /\ NoOtherWriter
    /\ Len(run[r].commits) = 2
    /\ Messages(refs[run[r].head]) = <<"A", "D", "B", "C">>

EmptyCherryPick(r) == CherryPickCall(r) /\ run[r].commits = <<>>

\* C27 as stated: for an empty commit list cherryPickCommits returns the target's starting tip and creates, updates and deletes no reference.
C27_EmptyListWritesNoReference ==
  /\ [](\A r \in Runs :
          EmptyCherryPick(r) /\ Succeeded(r) =>
            run[r].returned = run[r].headInitialSha)
  /\ [][\A r \in Runs :
          EmptyCherryPick(r) /\ StepOf(r) => refs' = refs]_vars

\* C27: for an empty commit list cherryPickCommits, when it returns, returns the target's starting tip; it creates its temporary branch at the starting tip and has deleted it when it ends, never sets the target to anything but the starting tip, and writes no other reference; when nobody else wrote it succeeds and leaves every reference as it was.
C27_EmptyListLeavesReferencesAsTheyWere ==
  /\ [](\A r \in Runs :
          EmptyCherryPick(r) /\ run[r].pc = "done" =>
            /\ refs[CherryPickTemporaryRef(r)] = NoSha
            /\ run[r].error = "none" =>
                 run[r].returned = run[r].headInitialSha
            /\ NoOtherWriter =>
                 /\ run[r].error = "none"
                 /\ refs[run[r].head] = run[r].headInitialSha)
  /\ [][\A r \in Runs :
          EmptyCherryPick(r) /\ StepOf(r) =>
            /\ \A ref \in RefNames \ {CherryPickTemporaryRef(r), run[r].head} :
                 refs'[ref] = refs[ref]
            /\ refs'[run[r].head] \in {refs[run[r].head], run[r].headInitialSha}
            /\ refs'[CherryPickTemporaryRef(r)]
                 \in {NoSha, run[r].headInitialSha}]_vars

\* The call for an empty list returned the starting tip, having written its
\* temporary branch.
C27_Witness ==
  \E r \in Runs :
    /\ EmptyCherryPick(r) /\ Succeeded(r) /\ NoOtherWriter
    /\ run[r].returned = run[r].headInitialSha
    /\ refs[run[r].head] = run[r].headInitialSha
    /\ "refs" \in wrote[r]


\* ------------------------------------------------------------------ C28
\* C28: a pull request that keeps the label, stays open and has no conflict
\* is eventually rebased once it is behind its base and eventually merged
\* once its mergeable state is clean, the events being delivered and every
\* host call returning.
C28_LabeledIsRebasedThenMerged ==
  /\ (~pulls[1].closed /\ MergeableStateOf(1) = "behind") ~> ~Behind(1)
  /\ (~pulls[1].closed /\ MergeableStateOf(1) = "clean") ~> pulls[1].merged

\* ------------------------------------------------------------------ C29
\* The run's search by commit id returned a blocked pull request, the one
\* its pullRequest keeps from then on.
FoundBlocked(r) ==
  /\ StatusOrCheckRun(r)
  /\ run[r].predicate = "behind"
  /\ run[r].pullRequest.mergeableState = "blocked"

\* Nothing of pull request n changes in the step: label, head branch,
\* comments, merged and closed.
Untouched(n) ==
  /\ pulls'[n].labeled = pulls[n].labeled
  /\ pulls'[n].merged = pulls[n].merged
  /\ pulls'[n].closed = pulls[n].closed
  /\ refs'[pulls[n].head] = refs[pulls[n].head]
  /\ comments'[n] = comments[n]

RebasingFound(r) ==
  /\ run[r].rbCaller = "rebase"
  /\ run[r].number = run[r].pullRequest.pullRequestNumber

InMerge(r) == run[r].pc \in {"mg_merge", "mg_deleteRef"}

\* The step deletes the head branch of pull request n.
DeletesHead(n) ==
  refs[pulls[n].head] # NoSha /\ refs'[pulls[n].head] = NoSha

\* C30: merge deletes the pull request's head branch only after the host
\* accepted its merge call (merge method rebase: the pull request's commits
\* on top of the base branch, no merge commit); when the host refuses the
\* merge call the run raises and the head branch is left as it was.
C30_HeadDeletedOnlyAfterMerge ==
  [][/\ \A n \in PullNumbers :
          DeletesHead(n) =>
            \E r \in Runs :
              /\ run[r].pc = "mg_deleteRef" /\ run[r].number = n
              /\ run[r].pullRequest.head = pulls[n].head
              /\ pulls[n].merged
              /\ run'[r].pc = "done" /\ run'[r].action = "merge"
     /\ \A r \in Runs :
          run[r].pc = "mg_merge" /\ StepOf(r) =>
            LET n == run[r].number
                head == run[r].pullRequest.head
            IN  /\ refs'[head] = refs[head]
                /\ IF MergeAccepted(n)
                     THEN /\ pulls'[n].merged
                          /\ run'[r].pc = "mg_deleteRef"
                          /\ refs'[pulls[n].base] =
                               RebasedOnto(refs[pulls[n].base],
                                           fetchCommits(n))
                          /\ \A i \in DOMAIN refs'[pulls[n].base] :
                               refs'[pulls[n].base][i].p2 = NoSha
                     ELSE /\ run'[r].pc = "done"
                          /\ run'[r].thrown # "none"
                          /\ run'[r].action = "none"
                          /\ refs' = refs
                          /\ pulls' = pulls]_vars

\* The host accepted the merge of pull request 1, whose head branch was
\* then deleted.
C30_Witness ==
  \E r \in Runs :
    /\ run[r].pc = "done" /\ run[r].action = "merge"
    /\ run[r].number = 1
    /\ pulls[1].merged
    /\ refs[FeatureRef(1)] = NoSha
    /\ "refs" \in wrote[r] /\ "merged" \in wrote[r]

\* ------------------------------------------------------------------ C31
\* C31: rebasePullRequest takes as the base tip what its own read of the
\* base branch's reference returns, whatever base commit id the pull request
\* gives, and the head tip of a successful call descends from it (hence from
\* A-D, master's tip when the call started, also when the pull request gave
\* the stale A).
C31_RebasedOntoFetchedBaseTip ==
  /\ [](\A r \in Runs :
          Succeeded(r) =>
            /\ IsAncestor(run[r].baseInitialSha, run[r].returned)
            /\ IsAncestor(Linear(<<"A", "D">>), run[r].returned)
            /\ IsAncestor(run[r].baseInitialSha, refs[MasterRef]))
  /\ [][\A r \in Runs :
          run[r].pc = "rb_fetchBase" /\ StepOf(r) =>
            run'[r].baseInitialSha = refs[run[r].baseRef]]_vars

\* The pull request gave A as its base commit id while master was at A-D or
\* further; the rebased head is on top of what the fetch of master returned.
C31_Witness ==
  \E r \in Runs :
    /\ Succeeded(r)
    /\ RecordedBaseSha(run[r].number) = Linear(<<"A">>)
    /\ run[r].baseInitialSha # RecordedBaseSha(run[r].number)
    /\ refs[FeatureRef(1)] = run[r].returned
    /\ IsAncestor(run[r].baseInitialSha, run[r].returned)
    /\ Len(run[r].returned) > Len(run[r].baseInitialSha)

\* ------------------------------------------------------------------ C32
\* The step in which findOldestPullRequest evaluates a candidate.
Evaluates(r) == run[r].pc = "fo_getInfo" /\ StepOf(r)

StrictlyAscending(l) == \A i, j \in DOMAIN l : i < j => l[i] < l[j]

\* C32: findOldestPullRequest evaluates its candidates one at a time, in
\* ascending order of their numbers; each evaluation reads the first
\* candidate left, once its mergeable state is known, and either ends the
\* search with it when it satisfies the predicate, the later candidates
\* never being read, or goes on with the next one.
C32_FirstMatchEndsTheSearch ==
  [][\A r \in Runs :
       /\ run'[r].pc = "fo_getInfo" =>
            run'[r].numbers # <<>> /\ StrictlyAscending(run'[r].numbers)
       /\ Evaluates(r) =>
            LET numbers == run[r].numbers
                n == Head(numbers)
            IN  /\ isMergeableStateKnown(n)
                /\ IF Satisfying(r, n)
                     THEN /\ run'[r].pc # "fo_getInfo"
                          /\ run'[r].numbers = numbers
                          /\ \/ run'[r].number = n
                             \/ run'[r].pullRequest.pullRequestNumber = n
                             \/ run'[r].pc = "done"
                   ELSE IF Tail(numbers) = <<>>
                     THEN run'[r].pc = "done" /\ run'[r].action = "nop"
                   ELSE /\ run'[r].pc = "fo_getInfo"
                        /\ run'[r].predicate = run[r].predicate
                        /\ run'[r].numbers = Tail(numbers)]_vars

\* The search ended with pull request 1, which is behind, while pull request
\* 2, behind as well, was listed after it and never read.
C32_Witness ==
  \E r \in Runs :
    /\ run[r].predicate = "behind"
    /\ run[r].pc = "lk_removeLabel"
    /\ run[r].number = 1
    /\ run[r].numbers = <<1, 2>>
    /\ ResolvedState(2) = "behind"
    /\ ~MergeabilityComputed(2)

\* ------------------------------------------------------------------ C33
\* The resolver gave up: promiseRetry rejected with the assertion's error.
GaveUp(r) == run[r].pc = "done" /\ run[r].thrown = "AssertionError"

AttemptsLock(r) == run[r].pc = "lk_removeLabel" /\ StepOf(r)

C35_OneTimeRebaseLeavesLabels ==
  /\ [](\A r \in Runs :
          run[r].event.name = "issue_comment" =>
            /\ run[r].pc \notin {"lk_removeLabel", "lk_addLabels"}
            /\ ~run[r].label
            /\ ~aux.acquired[r] /\ aux.holders[r] = {}
            /\ "labels" \notin wrote[r])
  /\ [][\A r \in Runs :
          run[r].event.name = "issue_comment" /\ StepOf(r) =>
            \A n \in PullNumbers : pulls'[n].labeled = pulls[n].labeled]_vars

\* The one-time rebase of the labeled pull request 1 failed and was
\* commented; the pull request still carries the label.
C35_Witness ==
  \E r \in Runs :
    /\ RebaseCommand(r) /\ Authorized(r)
    /\ run[r].pc = "done" /\ run[r].thrown = "rebase failed"
    /\ run[r].error # "none"
    /\ "comments" \in wrote[r]
    /\ pulls[run[r].number].labeled

\* ------------------------------------------------------------------ C36
\* C36: as long as nobody but the lock's holder has added the label, at most
\* one run holds the label lock of a pull request and the pull request does
\* not carry the label meanwhile; once someone else has added the label
\* while the lock was held, a second run can acquire it and two runs execute
\* the Rebase Engine on the pull request at the same time (the witness).
C36_ExclusionWhileNobodyElseLabels ==
  \A n \in PullNumbers :
    /\ aux.external = 0 =>
         /\ Cardinality(LockHolders(n)) <= 1
         /\ LockHolders(n) # {} => ~pulls[n].labeled
    /\ Cardinality(LockHolders(n)) <= 1 + aux.external

\* Two runs hold the label lock of pull request 1 and are both in the Rebase
\* Engine, someone having added the label while the first one held the lock.
C36_Witness ==
  \E r1, r2 \in Runs :
    /\ r1 # r2
    /\ {r1, r2} \subseteq LockHolders(1)
    /\ run[r1].pc \in EnginePcs /\ run[r2].pc \in EnginePcs
    /\ aux.acquired[r1] /\ aux.acquired[r2]
    /\ aux.external = 1

\* ------------------------------------------------------------------ C37
\* The run was given the force-rebase override with a pull_request event
\* (opened, synchronize or labeled) of a pull request that is open, in the
\* payload and on the host, and does not carry the label.
ForcedOnUnlabeled(r) ==
  /\ run[r].pc # "idle"
  /\ run[r].forceRebase
  /\ run[r].event.name = "pull_request"
  /\ run[r].event.action \in {"opened", "synchronize", "labeled"}
  /\ ~run[r].event.closed
  /\ ~pulls[run[r].event.number].closed
  /\ ~pulls[run[r].event.number].labeled

\* The label of a labeled event is the configured one.
ConfiguredLabelEvent(r) ==
  run[r].event.action = "labeled" => run[r].event.labelIsLabel

\* C37: such a run returns abort, whatever the event's action.
C37_ForcedOnUnlabeledAborts ==
  \A r \in Runs :
    ForcedOnUnlabeled(r) /\ ~aux.acquired[r] /\ run[r].pc = "done" =>
      run[r].action = "abort" /\ wrote[r] = {}

\* C37 (amended): such a run returns abort when the event is opened,
\* synchronize, or labeled with the configured label (removed since): the
\* removal of the absent label is refused, rebasePullRequest is never
\* called and nothing is written.  When the event is labeled with another
\* label the run returns nop without reading the pull request.
C37_ForcedOnUnlabeledAbortsOrNops ==
  [][\A r \in Runs :
       ForcedOnUnlabeled(r) /\ ~aux.acquired[r] /\ StepOf(r) =>
         /\ wrote'[r] = {}
         /\ run'[r].prHeadInitialSha = NoSha
         /\ IF ConfiguredLabelEvent(r)
              THEN /\ run'[r].pc \in {"ar_getInfo", "ap_needAutosquashing",
                                      "lk_removeLabel", "done"}
                   /\ run'[r].pc = "done" =>
                        /\ run[r].pc = "lk_removeLabel"
                        /\ run'[r].action = "abort"
                        /\ run'[r].thrown = "none"
              ELSE /\ run[r].pc = "ar_start"
                   /\ run'[r].pc = "done"
                   /\ run'[r].action = "nop" /\ run'[r].thrown = "none"
                   /\ run'[r].pullRequest = NoInfo]_vars

\* The forced run handling a synchronize event of the unlabeled, open pull
\* request 1, which is behind, went as far as the label's removal and
\* returned abort.
C37_Witness ==
  \E r \in Runs :
    /\ ForcedOnUnlabeled(r)
    /\ run[r].event.action = "synchronize"
    /\ run[r].pc = "done" /\ run[r].action = "abort"
    /\ run[r].label /\ run[r].number = 1
    /\ run[r].pullRequest.mergeableState = "behind"
    /\ refs[FeatureRef(1)] = Linear(<<"A", "B">>)

\* The run is about to send, or has sent, the merge request of pull request n.
MergesPullRequest(r, n) == InMerge(r) /\ run[r].number = n

\* The step in which run r takes a snapshot of a pull request.
TakesSnapshot(r) ==
  /\ StepOf(r)
  /\ run'[r].pullRequest # run[r].pullRequest
  /\ run'[r].pullRequest.labeledAndOpenedAndRebaseable

\* C38: every merge call of a run is made on a snapshot of the pull request that the run itself read from the host (a run starts without one) and whose labeledAndOpenedAndRebaseable is true; a pull request becomes merged only through such a call.
C38_MergeOnlyOnLabeledOpenRebaseableSnapshot ==
  /\ [](\A r \in Runs :
          InMerge(r) =>
            /\ run[r].pullRequest.labeledAndOpenedAndRebaseable
            /\ run[r].pullRequest.pullRequestNumber = run[r].number)
  /\ [](\A r \in Runs : run[r].pc = "idle" => run[r].pullRequest = NoInfo)
  /\ [][\A r \in Runs :
          TakesSnapshot(r) =>
            /\ run[r].pc # "idle"
            /\ run'[r].pullRequest =
                 getPullRequestInfo(run'[r].pullRequest.pullRequestNumber)]_vars
  /\ [][\A n \in PullNumbers :
          pulls'[n].merged /\ ~pulls[n].merged =>
            \E r \in Runs :
              /\ MergesPullRequest(r, n) /\ run[r].pc = "mg_merge"
              /\ run[r].pullRequest.labeledAndOpenedAndRebaseable]_vars

\* A pull_request_review run that read a labeled, open, rebaseable snapshot
\* of pull request 1 and had its merge accepted.
C38_Witness ==
  \E r \in Runs :
    /\ run[r].event.name = "pull_request_review"
    /\ run[r].pc = "mg_deleteRef"
    /\ run[r].number = 1
    /\ run[r].pullRequest.labeledAndOpenedAndRebaseable
    /\ pulls[1].merged

\* ------------------------------------- overlapping rebasePullRequest
\* The temporary references of the calls of run r.
TemporaryRefs(r) == {RebaseTemporaryRef(r), CherryPickTemporaryRef(r)}

\* The runs whose rebasePullRequest call on pull request 1 has ended.
EndedCalls ==
  {r \in Runs : /\ run[r].pc = "done" /\ run[r].rbCaller = "rebase"
                /\ run[r].number = 1 /\ run[r].prHeadInitialSha # NoSha}

\* Every run has ended, two of them at least called rebasePullRequest on
\* pull request 1, and none merged it.
CallsOver ==
  /\ \A r \in Runs : run[r].pc = "done" /\ run[r].action # "merge"
  /\ Cardinality(EndedCalls) >= 2

ReturnedTips == {run[r].returned : r \in EndedCalls} \ {NoSha}

\* C39: whenever rebasePullRequest calls on the same pull request overlap, the head branch ends on the complete rebased tip returned by one of them.
C39_HeadEndsOnOneRebasedTip ==
  /\ [][\A r \in Runs :
          StepOf(r) =>
            \A q \in Runs \ {r} :
              \A ref \in TemporaryRefs(q) : refs'[ref] = refs[ref]]_vars
  /\ [](CallsOver =>
          /\ refs[FeatureRef(1)] \in ReturnedTips
          /\ Messages(refs[FeatureRef(1)]) \in
               {<<"A", "D", "B">>, <<"A", "D", "K">>})

\* C39 (amended): no call writes or deletes a temporary reference of another call, each call works on the temporary references it created itself, and once all calls have ended the temporary references are gone and the head branch points to the complete rebased tip returned by one of the calls that returned; when every call raised (the commits conflict with the base) the head branch is where the calls found it.
C39_HeadEndsOnOneRebasedTipOrUntouched ==
  /\ [][\A r \in Runs :
          StepOf(r) =>
            \A q \in Runs \ {r} :
              \A ref \in TemporaryRefs(q) : refs'[ref] = refs[ref]]_vars
  /\ [](\A r \in Runs :
          /\ run[r].pc \in {"cp_fetchHead", "cp_createTemp", "cp_merge",
                            "cp_createCommit", "cp_updateTemp",
                            "cp_updateHead", "cp_deleteTemp"}
               /\ run[r].cpCaller = "rebase" =>
               run[r].head = RebaseTemporaryRef(r)
          /\ run[r].pc = "done" =>
               \A ref \in TemporaryRefs(r) : refs[ref] = NoSha)
  /\ [](CallsOver =>
          IF ReturnedTips # {}
            THEN /\ refs[FeatureRef(1)] \in ReturnedTips
                 /\ Messages(refs[FeatureRef(1)]) = <<"A", "D", "B">>
            ELSE \A r \in EndedCalls :
                   /\ refs[FeatureRef(1)] = run[r].prHeadInitialSha
                   /\ run[r].error = "conflict"
                   /\ Messages(refs[FeatureRef(1)]) = <<"A", "K">>)

\* Two one-time rebases of pull request 1 passed checkSameHead on the same
\* head before either updated it; both returned and the head is the tip of
\* the one that updated last.
C39_Witness ==
  /\ CallsOver
  /\ \A r \in Runs : r \in EndedCalls /\ run[r].returned # NoSha
  /\ \E r, q \in Runs :
       /\ r # q
       /\ aux.atCheck[r] = Linear(<<"A", "B">>)
       /\ aux.atCheck[q] = Linear(<<"A", "B">>)
       /\ refs[FeatureRef(1)] = run[r].returned

\* ------------------------------------------ after a failed locked rebase
\* Run r is inside rebasePullRequest or merge for pull request n.
ActsOn(r, n) ==
  /\ run[r].number = n
  /\ run[r].pc \in EnginePcs \cup {"mg_merge", "mg_deleteRef"}

\* C40: a run started after a label-locked rebase of pull request 1 has failed, for a pull_request, pull_request_review, status or check_run event, neither calls rebasePullRequest nor merge on it, and leaves its head branch, its label and its merged flag alone, as long as nobody has added the label since; the pull request stays without the label meanwhile.
C40_NoActionAfterFailedRebaseUntilRelabeled ==
  /\ [](\A r \in Runs :
          aux.later[r] =>
            /\ FailedLockedRebase(1)
            /\ ~pulls[1].labeled
            /\ ~ActsOn(r, 1)
            /\ wrote[r] = {})
  /\ [][\A r \in Runs :
          aux.later[r] /\ StepOf(r) =>
            /\ refs'[FeatureRef(1)] = refs[FeatureRef(1)]
            /\ pulls'[1] = pulls[1]
            /\ ~ActsOn(r, 1)']_vars

\* The locked rebase of pull request 1 failed on a conflict; a forced run
\* for its labeling, started afterwards, was refused the lock and aborted.
C40_Witness ==
  \E f, r \in Runs :
    /\ f # r
    /\ run[f].pc = "done" /\ run[f].thrown = "rebase failed"
    /\ run[f].error = "conflict" /\ run[f].label
    /\ aux.later[r]
    /\ run[r].forceRebase /\ run[r].event.action = "labeled"
    /\ run[r].pc = "done" /\ run[r].action = "abort"
    /\ refs[FeatureRef(1)] = Linear(<<"A", "K">>)
    /\ Len(comments[1]) = 1

====
